---- MODULE Spec2Model ----
(***************************************************************************)
(* A model of the source-plane analysis routines of auto_lens/analysis.py  *)
(* (the assignment of traced sub-pixels to pixelization cells by the       *)
(* exhaustive and neighbour-walk strategies, the regularization matrix,    *)
(* the mapping matrix, the source-plane border with its angles and         *)
(* relocation, the Voronoi neighbour lists), of the fitting functions      *)
(* exercised by test/analysis/test_fitting.py, of the image fit of         *)
(* autolens/lens/lens_fit/lens_image_fit.py with its linear inversion and  *)
(* its hyper noise map, and of the hyper phases of                         *)
(* autolens/pipeline/phase/phase_extensions.py (HyperPhase.run,            *)
(* CombinedHyperPhase.run, make_hyper_phase, transfer_classes,             *)
(* HyperGalaxyPhase.run_hyper).                                            *)
(*                                                                         *)
(* Conventions.  Python sequences are 0-based, TLA+ sequences 1-based: a   *)
(* cell, pixel or sub-pixel index k of the code is k+1 here.  Coordinates  *)
(* are pairs <<x, y>>.  Arithmetic is exact (integers, rationals where the *)
(* code divides, sums of a rational and logarithms for the evidence).      *)
(* Floating-point rounding is modelled in one place, the wrap-around of    *)
(* coordinates_angle_from_x, where it decides the result.                  *)
(***************************************************************************)
EXTENDS Integers, Sequences, FiniteSets, TLC

\* ------------------------------------------------------------------ bounds
\* sub-pixel coordinates of the assignment are drawn from (0..GridMax)^2
GridMax == 2
\* regularization: matrices of up to MaxDimension cells, up to MaxPairs pairs
MaxDimension == 3
MaxPairs == 2
\* regularization: the vectors x of the quadratic form range over -MaxX..MaxX
MaxX == 1
\* image fit: the terms of a fit are drawn from -MaxTerm..MaxTerm
MaxTerm == 1
\* fitting: vectors of up to MaxPixels pixels or cells, fluxes in 0..MaxFlux,
\* noise in 1..MaxNoise
MaxPixels == 2
MaxFlux == 2
MaxNoise == 2
\* mapping matrix: up to MaxSubPixels sub-pixels in all, MaxSourcePixels cells
MaxSubPixels == 8
MaxSourcePixels == 2
\* border: centre in (0..MaxCentre)^2, border radii in 1..MaxBorderRadius,
\* coordinates up to MaxRadius from the centre, up to MaxRelocations relocations
MaxCentre == 1
MaxBorderRadius == 2
MaxRadius == 3
MaxRelocations == 2
\* Voronoi: up to MaxCells cluster centres and MaxRidges ridges between them
MaxCells == 3
MaxRidges == 3
\* hyper phases: up to MaxHyperPhases hyper phases in a combined phase, up to
\* MaxPrevious earlier results in the caller's collection, up to MaxRuns runs
MaxHyperPhases == 2
MaxPrevious == 1
MaxRuns == 2
\* make_hyper_phase: phases in up to MaxFolders folders, up to MaxCalls calls
MaxFolders == 2
MaxCalls == 3
\* hyper galaxy phase: up to MaxGalaxies galaxies in the previous result
MaxGalaxies == 2

\* ------------------------------------------------------------------ state
VARIABLES
    \* sub_coordinates_to_clusters_via_sparse_pairs: arguments
    sub_coordinates,
    cluster_centers,
    cluster_neighbors,
    sub_coordinate_to_sparse_coordinate_index,
    sparse_coordinate_to_cluster_index,
    \* sub_coordinates_to_clusters_via_sparse_pairs: locals
    sub_coordinate_index,
    nearest_sparse_cluster_index,
    sub_image_pixel_to_cluster_index,
    apc,
    \* the value returned by sub_coordinates_to_clusters_via_nearest_neighbour
    nearest_neighbour_index,
    \* history: moves of the walk of the current sub-pixel, and of each finished one
    hops,
    hop_log,
    \* RegularizationMatrix.make_via_pairs: arguments, returned matrix
    dimension,
    regularization_weights,
    no_vertices,
    pixel_pairs,
    matrix,
    rpc,
    \* MappingMatrix.__new__: arguments, returned matrix
    source_pixel_total,
    image_pixel_total,
    sub_grid_size,
    mm_sub_image_pixel_to_cluster_index,
    sub_image_pixel_to_image_pixel_index,
    mapping_matrix,
    mpc,
    \* SourcePlane: centre, coordinates; SourcePlaneBorder: thetas, radii, polynomial
    centre,
    coordinates,
    border_thetas,
    border_radii,
    polynomial,
    \* history: the coordinates before the last relocation, the relocations made
    previous_coordinates,
    relocations,
    \* SourcePlaneGeometry.coordinates_angle_from_x: argument, returned angle
    angle_coordinates,
    angle_from_x,
    gpc,
    \* ImageFit: the terms of the fit, the inversion (or None), and the values
    \* read from the properties evidence and figure_of_merit
    fit_chi_squared,
    fit_noise_normalization,
    fit_inversion,
    evidence_read,
    figure_of_merit_read,
    \* fitting.compute_likelihood: arguments, returned likelihood
    lh_image,
    lh_noise,
    lh_model_image,
    likelihood_returned,
    \* fitting.pixelization_model_image_from_s_vector: arguments, returned image
    pix_s_vector,
    pix_blurred_mapping_matrix,
    model_image_returned,
    \* LensImageFit.from_lens_data_and_tracer: the lens data and the tracer (has
    \* it a pixelization, its blurred mapping matrix and regularization matrix),
    \* the model image of the fit it returns, and where the call stands
    tracer_has_pixelization,
    lens_data_image_1d,
    lens_data_noise_map_1d,
    tracer_blurred_mapping_matrix,
    tracer_regularization_matrix,
    fit_model_image,
    epc,
    \* Voronoi.__init__: the ridge pairs qhull returned, the position of the
    \* loop over them, the attributes neighbors and neighbors_total
    ridge_points,
    ridge_index,
    voronoi_neighbors,
    voronoi_neighbors_total,
    vpc,
    \* HyperPhase.run and CombinedHyperPhase.run: the class of self, its
    \* hyper_name and the hyper names of self.hyper_phases; the caller's results
    \* collection; the local results, whether they are the caller's object, the
    \* result of self.phase.run and whether results.add has put it in the local
    \* collection; the position of the loop over hyper_phases; the calls made so
    \* far; the value returned; the number of the run; where the call stands
    hp_class,
    hp_hyper_name,
    hp_hyper_phases,
    caller_results,
    hp_results,
    hp_results_shared,
    hp_result,
    hp_added,
    hp_index,
    hp_calls,
    hp_returned,
    hp_runs,
    hpc,
    \* HyperPhase.make_hyper_phase: self.phase and self.hyper_name, self.phase as
    \* it was when the hyper phase was constructed, the phases returned so far
    wrapped_phase,
    wrapped_hyper_name,
    phase_at_construction,
    made_phases,
    \* VariableFixingHyperPhase.transfer_classes: self.variable_classes, the
    \* arguments instance and mapper, the mapper as it was before the call,
    \* where the call stands
    variable_classes,
    tc_instance,
    tc_mapper,
    tc_mapper_before,
    tpc,
    \* HyperGalaxyPhase.run_hyper: the hyper model image and the hyper galaxy
    \* image of every path of results.last, the hyper_galaxy of every path in
    \* results.last and what it was before the call, hyper_result and whether it
    \* is the object results.last, the fits run per path, the position of the
    \* loop, the value returned, where the call stands
    hg_model_image,
    hg_galaxy_images,
    hg_last,
    hg_last_before,
    hg_hyper_result,
    hg_shared,
    hg_fits,
    hg_path,
    hg_returned,
    hgpc,
    \* noise_map_1d_from_lens_data_tracer_and_hyper_backkground_noise:
    \* lens_data.noise_map_1d and what it was before the call,
    \* lens_data.hyper_noise_map_max, what hyper_background_noise gives for the
    \* noise map (none without a hyper_background_noise), what the tracer gives
    \* for the hyper noise map, the value returned, where the call stands
    nm_noise_map_1d,
    nm_noise_map_1d_before,
    nm_hyper_noise_map_max,
    nm_scaled_noise_map,
    nm_hyper_noise_map_1d,
    nm_returned,
    nmpc

assignVars == <<sub_coordinates, cluster_centers, cluster_neighbors,
                sub_coordinate_to_sparse_coordinate_index,
                sparse_coordinate_to_cluster_index, sub_coordinate_index,
                nearest_sparse_cluster_index, sub_image_pixel_to_cluster_index,
                apc, nearest_neighbour_index, hops, hop_log>>

regVars == <<dimension, regularization_weights, no_vertices, pixel_pairs, matrix, rpc>>

mapVars == <<source_pixel_total, image_pixel_total, sub_grid_size,
             mm_sub_image_pixel_to_cluster_index,
             sub_image_pixel_to_image_pixel_index, mapping_matrix, mpc>>

borderVars == <<centre, coordinates, border_thetas, border_radii, polynomial,
                previous_coordinates, relocations>>

angleVars == <<angle_coordinates, angle_from_x, gpc>>

fitVars == <<fit_chi_squared, fit_noise_normalization, fit_inversion, evidence_read, figure_of_merit_read>>

fittingVars == <<lh_image, lh_noise, lh_model_image, likelihood_returned,
                 pix_s_vector, pix_blurred_mapping_matrix, model_image_returned>>

lensDataVars == <<tracer_has_pixelization, lens_data_image_1d, lens_data_noise_map_1d,
                  tracer_blurred_mapping_matrix, tracer_regularization_matrix>>

inversionVars == <<lensDataVars, fit_model_image, epc>>

voronoiVars == <<ridge_points, ridge_index, voronoi_neighbors, voronoi_neighbors_total, vpc>>

makeVars == <<wrapped_phase, wrapped_hyper_name, phase_at_construction, made_phases>>

transferVars == <<variable_classes, tc_instance, tc_mapper, tc_mapper_before, tpc>>

hyperGalaxyVars == <<hg_model_image, hg_galaxy_images, hg_last, hg_last_before,
                     hg_hyper_result, hg_shared, hg_fits, hg_path, hg_returned, hgpc>>

noiseMapVars == <<nm_noise_map_1d, nm_noise_map_1d_before, nm_hyper_noise_map_max,
                  nm_scaled_noise_map, nm_hyper_noise_map_1d, nm_returned, nmpc>>

hyperRunVars == <<hp_class, hp_hyper_name, hp_hyper_phases, caller_results, hp_results,
                  hp_results_shared, hp_result, hp_added, hp_index, hp_calls, hp_returned,
                  hp_runs, hpc>>

vars == <<assignVars, regVars, mapVars, borderVars, angleVars, fitVars, fittingVars,
          inversionVars, voronoiVars, hyperRunVars, makeVars, transferVars,
          hyperGalaxyVars, noiseMapVars>>

\* what a routine leaves alone: the state of the other routines
notAssignVars == <<regVars, mapVars, borderVars, angleVars, fitVars, fittingVars, inversionVars, voronoiVars, hyperRunVars, makeVars, transferVars, hyperGalaxyVars, noiseMapVars>>
notRegVars == <<assignVars, mapVars, borderVars, angleVars, fitVars, fittingVars, inversionVars, voronoiVars, hyperRunVars, makeVars, transferVars, hyperGalaxyVars, noiseMapVars>>
notMapVars == <<assignVars, regVars, borderVars, angleVars, fitVars, fittingVars, inversionVars, voronoiVars, hyperRunVars, makeVars, transferVars, hyperGalaxyVars, noiseMapVars>>
notBorderVars == <<assignVars, regVars, mapVars, angleVars, fitVars, fittingVars, inversionVars, voronoiVars, hyperRunVars, makeVars, transferVars, hyperGalaxyVars, noiseMapVars>>
\* from_lens_data_and_tracer builds the fit
notInversionVars == <<assignVars, regVars, mapVars, borderVars, angleVars, fittingVars, voronoiVars, hyperRunVars, makeVars, transferVars, hyperGalaxyVars, noiseMapVars>>
notFittingVars == <<assignVars, regVars, mapVars, borderVars, angleVars, fitVars, inversionVars, voronoiVars, hyperRunVars, makeVars, transferVars, hyperGalaxyVars, noiseMapVars>>
notFitVars == <<assignVars, regVars, mapVars, borderVars, angleVars, fittingVars, inversionVars, voronoiVars, hyperRunVars, makeVars, transferVars, hyperGalaxyVars, noiseMapVars>>
\* coordinates_angle_from_x reads the centre of its geometry
notAngleVars == <<assignVars, regVars, mapVars, borderVars, fitVars, fittingVars, inversionVars, voronoiVars, hyperRunVars, makeVars, transferVars, hyperGalaxyVars, noiseMapVars>>

notVoronoiVars == <<assignVars, regVars, mapVars, borderVars, angleVars, fitVars, fittingVars, inversionVars, hyperRunVars, makeVars, transferVars, hyperGalaxyVars, noiseMapVars>>

notHyperRunVars == <<assignVars, regVars, mapVars, borderVars, angleVars, fitVars, fittingVars, inversionVars, voronoiVars, makeVars, transferVars, hyperGalaxyVars, noiseMapVars>>

notMakeVars == <<assignVars, regVars, mapVars, borderVars, angleVars, fitVars, fittingVars, inversionVars, voronoiVars, hyperRunVars, transferVars, hyperGalaxyVars, noiseMapVars>>

notTransferVars == <<assignVars, regVars, mapVars, borderVars, angleVars, fitVars, fittingVars, inversionVars, voronoiVars, hyperRunVars, makeVars, hyperGalaxyVars, noiseMapVars>>

notHyperGalaxyVars == <<assignVars, regVars, mapVars, borderVars, angleVars, fitVars, fittingVars, inversionVars, voronoiVars, hyperRunVars, makeVars, transferVars, noiseMapVars>>

notNoiseMapVars == <<assignVars, regVars, mapVars, borderVars, angleVars, fitVars, fittingVars, inversionVars, voronoiVars, hyperRunVars, makeVars, transferVars, hyperGalaxyVars>>

\* ------------------------------------------------------------------ helpers
RECURSIVE AscSeq(_)
AscSeq(S) ==
    IF S = {} THEN <<>>
    ELSE LET m == CHOOSE x \in S : \A y \in S : x <= y
         IN  <<m>> \o AscSeq(S \ {m})

Reverse(s) == [i \in 1..Len(s) |-> s[Len(s) + 1 - i]]

RECURSIVE SeqSum(_)
SeqSum(s) == IF s = <<>> THEN 0 ELSE Head(s) + SeqSum(Tail(s))

Abs(n) == IF n < 0 THEN -n ELSE n

RECURSIVE GCD(_, _)
GCD(a, b) == IF b = 0 THEN a ELSE GCD(b, a % b)

\* exact rationals <<numerator, denominator>>, denominator > 0, in lowest terms
\* (a zero denominator, as left by a division by zero, is kept as it is)
Rat(n, d) ==
    LET s == IF d < 0 THEN -1 ELSE 1
        g == IF n = 0 /\ d = 0 THEN 1 ELSE GCD(Abs(n), Abs(d))
    IN  <<(s * n) \div g, (s * d) \div g>>

RInt(n) == <<n, 1>>
RAdd(a, b) == Rat(a[1] * b[2] + b[1] * a[2], a[2] * b[2])
RSub(a, b) == Rat(a[1] * b[2] - b[1] * a[2], a[2] * b[2])
RMul(a, b) == Rat(a[1] * b[1], a[2] * b[2])
RDiv(a, b) == Rat(a[1] * b[2], a[2] * b[1])
RLess(a, b) == a[1] * b[2] < b[1] * a[2]
RAbs(a) == <<Abs(a[1]), a[2]>>

RECURSIVE RSeqSum(_)
RSeqSum(s) == IF s = <<>> THEN RInt(0) ELSE RAdd(Head(s), RSeqSum(Tail(s)))

\* A number that may hold logarithms: <<q, logs>> stands for
\* q + SUM of logs[a] * log((2 pi)^a[1] * a[2]) over the arguments a in
\* DOMAIN logs, with q and the coefficients logs[a] exact rationals (none of
\* them zero) and a = <<k, r>> with r an exact rational other than 1 when k = 0.
VRat(q) == <<q, [a \in {} |-> RInt(0)]>>
VInt(n) == VRat(RInt(n))
VLog(k, r) == IF k = 0 /\ r = RInt(1) THEN VInt(0) ELSE <<RInt(0), [a \in {<<k, r>>} |-> RInt(1)]>>
VCoefficient(v, a) == IF a \in DOMAIN v[2] THEN v[2][a] ELSE RInt(0)
VAdd(v, w) ==
    LET coefficient(a) == RAdd(VCoefficient(v, a), VCoefficient(w, a))
    IN  <<RAdd(v[1], w[1]),
          [a \in {b \in DOMAIN v[2] \cup DOMAIN w[2] : coefficient(b) # RInt(0)} |-> coefficient(a)]>>
VScale(c, v) ==
    <<RMul(c, v[1]), [a \in {b \in DOMAIN v[2] : c # RInt(0)} |-> RMul(c, v[2][a])]>>
VSub(v, w) == VAdd(v, VScale(RInt(-1), w))

RECURSIVE VSeqSum(_)
VSeqSum(s) == IF s = <<>> THEN VInt(0) ELSE VAdd(Head(s), VSeqSum(Tail(s)))

RECURSIVE RSeqProduct(_)
RSeqProduct(s) == IF s = <<>> THEN RInt(1) ELSE RMul(Head(s), RSeqProduct(Tail(s)))

\* ------------------------------------------------- cluster assignment (pure)
compute_squared_separation(coordinate1, coordinate2) ==
    (coordinate1[1] - coordinate2[1]) * (coordinate1[1] - coordinate2[1])
  + (coordinate1[2] - coordinate2[2]) * (coordinate1[2] - coordinate2[2])

\* the mutation of np.argmin: the last index holding the minimum
argmin_of_last_minimum(distances) ==
    CHOOSE i \in 1..Len(distances) :
        /\ \A j \in 1..Len(distances) : distances[i] <= distances[j]
        /\ \A j \in (i + 1)..Len(distances) : distances[j] > distances[i]

\* np.argmin: the first index holding the minimum (the code is Python 2: map
\* returns the list of separations)
argmin(distances) ==
    CHOOSE i \in 1..Len(distances) :
        /\ \A j \in 1..Len(distances) : distances[i] <= distances[j]
        /\ \A j \in 1..(i - 1) : distances[j] > distances[i]

sub_coordinates_to_clusters_via_nearest_neighbour(subs, centers) ==
    [s \in 1..Len(subs) |->
        argmin([k \in 1..Len(centers) |->
                    compute_squared_separation(subs[s], centers[k])])]

find_index_of_nearest_sparse_coordinate(index, coordinate_to_sparse_coordinates_index) ==
    coordinate_to_sparse_coordinates_index[index]

find_index_of_nearest_sparse_cluster(nearest_sparse_coordinate_index, sparse_coordinates_to_cluster_index) ==
    sparse_coordinates_to_cluster_index[nearest_sparse_coordinate_index]

find_separation_of_sub_coordinate_and_nearest_sparse_cluster(centers, sub_coordinate, cluster_index) ==
    compute_squared_separation(sub_coordinate, centers[cluster_index])

\* the mutation of the neighbour scan: the farthest neighbour instead of the nearest
farthest_neighboring_cluster(sub_coordinate, centers, neighbors) ==
    LET separation_from_neighbor ==
            [n \in 1..Len(neighbors) |->
                compute_squared_separation(sub_coordinate, centers[neighbors[n]])]
        farthest == CHOOSE i \in 1..Len(neighbors) :
            \A j \in 1..Len(neighbors) :
                separation_from_neighbor[i] >= separation_from_neighbor[j]
    IN  <<neighbors[farthest], separation_from_neighbor[farthest]>>

\* <<index, separation>> of the neighbour nearest to sub_coordinate; min(...,
\* key=...) takes the first minimum.  Only evaluated on a non-empty list (on an
\* empty one min raises ValueError, see WalkRaise).
find_separation_and_index_of_nearest_neighboring_cluster(sub_coordinate, centers, neighbors) ==
    LET separation_from_neighbor ==
            [n \in 1..Len(neighbors) |->
                compute_squared_separation(sub_coordinate, centers[neighbors[n]])]
        closest_separation_index == argmin(separation_from_neighbor)
    IN  <<neighbors[closest_separation_index],
          separation_from_neighbor[closest_separation_index]>>

\* line 334: the walk stops when the current cell is strictly nearer than its
\* nearest neighbour
walk_breaks(separation_of_sparse_cluster, separation_of_neighboring_cluster) ==
    separation_of_sparse_cluster < separation_of_neighboring_cluster

\* ------------------------------------------------- cluster assignment: inputs
SubPixelCounts == {1, 2}

Grid == (0..GridMax) \X (0..GridMax)

\* cell-centre layouts: two cells, a right triangle, a diagonal chain
Layouts == { << <<0, 0>>, <<2, 0>> >>,
             << <<0, 0>>, <<2, 0>>, <<0, 2>> >>,
             << <<0, 0>>, <<1, 1>>, <<2, 2>> >> }

Edges(k) == { e \in SUBSET (1..k) : Cardinality(e) = 2 }

\* the neighbour lists of an undirected graph, as Voronoi.__init__ builds them:
\* every ridge {i, j} puts j in neighbors[i] and i in neighbors[j]
NeighborLists(k, edges, descending) ==
    [c \in 1..k |->
        LET asc == AscSeq({ d \in 1..k : {c, d} \in edges })
        IN  IF descending THEN Reverse(asc) ELSE asc]

\* the move counter saturates one past the number of cells
HopCap == Len(cluster_centers) + 1

InitAssign ==
    \E layout \in Layouts, descending \in BOOLEAN, n \in SubPixelCounts :
      \E edges \in SUBSET Edges(Len(layout)), subs \in [1..n -> Grid], m \in 1..n :
        \E to_sparse \in [1..n -> 1..m] :
          /\ cluster_centers = layout
          /\ cluster_neighbors = NeighborLists(Len(layout), edges, descending)
          /\ sub_coordinates = subs
          /\ sub_coordinate_to_sparse_coordinate_index = to_sparse
          \* the sparse samples are the first m sub-pixels, each already
          \* assigned exhaustively
          /\ sparse_coordinate_to_cluster_index =
                sub_coordinates_to_clusters_via_nearest_neighbour(
                    [s \in 1..m |-> subs[s]], layout)
          /\ sub_coordinate_index = 1
          /\ nearest_sparse_cluster_index = 0
          /\ sub_image_pixel_to_cluster_index = <<>>
          /\ nearest_neighbour_index = <<>>
          /\ apc = "nearest_neighbour"
          /\ hops = 0
          /\ hop_log = <<>>

\* ------------------------------------------------ cluster assignment: actions
\* the exhaustive strategy, run on the same input before the accelerated one
NearestNeighbour ==
    /\ apc = "nearest_neighbour"
    /\ nearest_neighbour_index' =
          sub_coordinates_to_clusters_via_nearest_neighbour(sub_coordinates,
                                                            cluster_centers)
    /\ apc' = "for"
    /\ UNCHANGED notAssignVars
    /\ UNCHANGED <<sub_coordinates, cluster_centers, cluster_neighbors,
                   sub_coordinate_to_sparse_coordinate_index,
                   sparse_coordinate_to_cluster_index, sub_coordinate_index,
                   nearest_sparse_cluster_index, sub_image_pixel_to_cluster_index,
                   hops, hop_log>>

\* lines 316-322: the next sub-pixel starts from the cell of its sparse sample
ForEnter ==
    /\ apc = "for"
    /\ sub_coordinate_index <= Len(sub_coordinates)
    /\ nearest_sparse_cluster_index' =
          find_index_of_nearest_sparse_cluster(
              find_index_of_nearest_sparse_coordinate(
                  sub_coordinate_index, sub_coordinate_to_sparse_coordinate_index),
              sparse_coordinate_to_cluster_index)
    /\ hops' = 0
    /\ apc' = "walk"
    /\ UNCHANGED notAssignVars
    /\ UNCHANGED <<sub_coordinates, cluster_centers, cluster_neighbors,
                   sub_coordinate_to_sparse_coordinate_index,
                   sparse_coordinate_to_cluster_index, sub_coordinate_index,
                   sub_image_pixel_to_cluster_index, nearest_neighbour_index,
                   hop_log>>

CurrentSeparation ==
    find_separation_of_sub_coordinate_and_nearest_sparse_cluster(
        cluster_centers, sub_coordinates[sub_coordinate_index],
        nearest_sparse_cluster_index)

CurrentNeighbor ==
    find_separation_and_index_of_nearest_neighboring_cluster(
        sub_coordinates[sub_coordinate_index], cluster_centers,
        cluster_neighbors[nearest_sparse_cluster_index])

\* the mutation of line 340: the cell put at the front of the list
WalkBreakAtTheFront ==
    /\ apc = "walk"
    /\ cluster_neighbors[nearest_sparse_cluster_index] # <<>>
    /\ walk_breaks(CurrentSeparation, CurrentNeighbor[2])
    /\ sub_image_pixel_to_cluster_index' =
          <<nearest_sparse_cluster_index>> \o sub_image_pixel_to_cluster_index
    /\ hop_log' = Append(hop_log, hops)
    /\ sub_coordinate_index' = sub_coordinate_index + 1
    /\ apc' = "for"
    /\ UNCHANGED notAssignVars
    /\ UNCHANGED <<sub_coordinates, cluster_centers, cluster_neighbors,
                   sub_coordinate_to_sparse_coordinate_index,
                   sparse_coordinate_to_cluster_index, nearest_sparse_cluster_index,
                   nearest_neighbour_index, hops>>

\* lines 326-335 and 340: no neighbour passes the test of line 334; the current
\* cell is appended and the for loop goes on
WalkBreak ==
    /\ apc = "walk"
    /\ cluster_neighbors[nearest_sparse_cluster_index] # <<>>
    /\ walk_breaks(CurrentSeparation, CurrentNeighbor[2])
    /\ sub_image_pixel_to_cluster_index' =
          Append(sub_image_pixel_to_cluster_index, nearest_sparse_cluster_index)
    /\ hop_log' = Append(hop_log, hops)
    /\ sub_coordinate_index' = sub_coordinate_index + 1
    /\ apc' = "for"
    /\ UNCHANGED notAssignVars
    /\ UNCHANGED <<sub_coordinates, cluster_centers, cluster_neighbors,
                   sub_coordinate_to_sparse_coordinate_index,
                   sparse_coordinate_to_cluster_index, nearest_sparse_cluster_index,
                   nearest_neighbour_index, hops>>

\* lines 326-337: the else branch moves the pointer to the nearest neighbour
WalkMove ==
    /\ apc = "walk"
    /\ cluster_neighbors[nearest_sparse_cluster_index] # <<>>
    /\ ~walk_breaks(CurrentSeparation, CurrentNeighbor[2])
    /\ nearest_sparse_cluster_index' = CurrentNeighbor[1]
    /\ hops' = IF hops < HopCap THEN hops + 1 ELSE hops
    /\ UNCHANGED notAssignVars
    /\ UNCHANGED <<sub_coordinates, cluster_centers, cluster_neighbors,
                   sub_coordinate_to_sparse_coordinate_index,
                   sparse_coordinate_to_cluster_index, sub_coordinate_index,
                   sub_image_pixel_to_cluster_index, apc, nearest_neighbour_index,
                   hop_log>>

\* line 379: min() of an empty sequence raises ValueError
WalkRaise ==
    /\ apc = "walk"
    /\ cluster_neighbors[nearest_sparse_cluster_index] = <<>>
    /\ apc' = "ValueError"
    /\ UNCHANGED notAssignVars
    /\ UNCHANGED <<sub_coordinates, cluster_centers, cluster_neighbors,
                   sub_coordinate_to_sparse_coordinate_index,
                   sparse_coordinate_to_cluster_index, sub_coordinate_index,
                   nearest_sparse_cluster_index, sub_image_pixel_to_cluster_index,
                   nearest_neighbour_index, hops, hop_log>>

\* line 342
AssignReturn ==
    /\ apc = "for"
    /\ sub_coordinate_index > Len(sub_coordinates)
    /\ apc' = "done"
    /\ UNCHANGED notAssignVars
    /\ UNCHANGED <<sub_coordinates, cluster_centers, cluster_neighbors,
                   sub_coordinate_to_sparse_coordinate_index,
                   sparse_coordinate_to_cluster_index, sub_coordinate_index,
                   nearest_sparse_cluster_index, sub_image_pixel_to_cluster_index,
                   nearest_neighbour_index, hops, hop_log>>

\* ------------------------------------------------ cluster assignment: claims
Cells == 1..Len(cluster_centers)

SepTo(s, c) == compute_squared_separation(sub_coordinates[s], cluster_centers[c])

\* one cell centre is strictly nearer to sub-pixel s than every other
UniqueNearest(s) ==
    \E c \in Cells : \A d \in Cells \ {c} : SepTo(s, c) < SepTo(s, d)

\* every cell that is not a nearest cell of sub-pixel s has a neighbour strictly
\* nearer to s (what the adjacency of a Voronoi tessellation guarantees)
DelaunayConsistentAt(s) ==
    \A c \in Cells :
        (\E d \in Cells : SepTo(s, d) < SepTo(s, c))
        => \E n \in 1..Len(cluster_neighbors[c]) :
              SepTo(s, cluster_neighbors[c][n]) < SepTo(s, c)

\* C1 (as stated): for every input, adjacency graph included, the accelerated
\* strategy returns for every sub-pixel the cell the exhaustive strategy returns.
C1_EveryInputSameCell ==
    \A s \in 1..Len(sub_image_pixel_to_cluster_index) :
        sub_image_pixel_to_cluster_index[s] = nearest_neighbour_index[s]

\* C1 (amended): for every sub-pixel with a unique nearest cell centre at which
\* the adjacency graph is Delaunay-consistent, the walk makes fewer than
\* cell_count moves and every cell index the accelerated strategy returns equals
\* the one the exhaustive strategy returns.
C1_SameCellWhenConsistent ==
    /\ \A s \in 1..Len(sub_image_pixel_to_cluster_index) :
          (UniqueNearest(s) /\ DelaunayConsistentAt(s))
          => sub_image_pixel_to_cluster_index[s] = nearest_neighbour_index[s]
    /\ (/\ apc = "walk"
        /\ UniqueNearest(sub_coordinate_index)
        /\ DelaunayConsistentAt(sub_coordinate_index))
       => hops < Len(cluster_centers)

\* a sub-pixel that started away from its nearest cell, walked two cells and
\* ended on the cell of the exhaustive strategy
C1_Witness ==
    \E s \in 1..Len(sub_image_pixel_to_cluster_index) :
        /\ UniqueNearest(s)
        /\ DelaunayConsistentAt(s)
        /\ hop_log[s] = 2
        /\ sub_image_pixel_to_cluster_index[s] = nearest_neighbour_index[s]

\* C2: in a well-formed adjacency graph the neighbour walk of a sub-pixel never
\* takes more than cell_count steps.
C2_WalkWithinCellCount ==
    (apc = "walk" /\ DelaunayConsistentAt(sub_coordinate_index))
    => hops <= Len(cluster_centers)

\* C3: the pointer moves only to a neighbour strictly nearer than the current
\* cell, and when no neighbour is strictly nearer (a tie and an empty neighbour
\* list included) the walk stops and returns the current cell.
C3_MoveOnlyWhenStrictlyNearer ==
    [][ apc = "walk" =>
          LET s == sub_coordinate_index
              c == nearest_sparse_cluster_index
              nearer == \E n \in 1..Len(cluster_neighbors[c]) :
                            SepTo(s, cluster_neighbors[c][n]) < SepTo(s, c)
          IN  /\ (apc' = "walk" /\ nearest_sparse_cluster_index' # c)
                    => SepTo(s, nearest_sparse_cluster_index') < SepTo(s, c)
              /\ ~nearer
                    => /\ apc' = "for"
                       /\ sub_image_pixel_to_cluster_index' =
                             Append(sub_image_pixel_to_cluster_index, c)
      ]_vars


\* C23: the exhaustive strategy returns for every sub-pixel a cell whose centre
\* has the least squared distance to it over all cell centres, and of the cells
\* at that distance the one of lowest index.
C23_ExhaustiveArgMin ==
    apc \in {"for", "walk", "done", "ValueError"}
    => /\ Len(nearest_neighbour_index) = Len(sub_coordinates)
       /\ \A s \in 1..Len(sub_coordinates) :
             LET c == nearest_neighbour_index[s]
                 dx(d) == sub_coordinates[s][1] - cluster_centers[d][1]
                 dy(d) == sub_coordinates[s][2] - cluster_centers[d][2]
                 SquaredDistance(d) == dx(d) * dx(d) + dy(d) * dy(d)
             IN  /\ c \in Cells
                 /\ \A d \in Cells : SquaredDistance(c) <= SquaredDistance(d)
                 /\ \A d \in Cells : SquaredDistance(d) = SquaredDistance(c) => c <= d

\* three cells and two sub-pixels: one at the same distance from two cells and
\* given the lower of them, one given a cell that is not the first
C23_Witness ==
    /\ apc = "for"
    /\ Len(cluster_centers) = 3
    /\ Len(sub_coordinates) = 2
    /\ \E s, t \in 1..2 :
          /\ \E d \in Cells : d > nearest_neighbour_index[s]
                               /\ SepTo(s, d) = SepTo(s, nearest_neighbour_index[s])
          /\ nearest_neighbour_index[t] > 1

\* ----------------------------------------- the other routines stay uncalled
IdleAssign ==
    /\ sub_coordinates = <<>>
    /\ cluster_centers = <<>>
    /\ cluster_neighbors = <<>>
    /\ sub_coordinate_to_sparse_coordinate_index = <<>>
    /\ sparse_coordinate_to_cluster_index = <<>>
    /\ sub_coordinate_index = 1
    /\ nearest_sparse_cluster_index = 0
    /\ sub_image_pixel_to_cluster_index = <<>>
    /\ nearest_neighbour_index = <<>>
    /\ apc = "idle"
    /\ hops = 0
    /\ hop_log = <<>>

IdleReg ==
    /\ dimension = 0
    /\ regularization_weights = <<>>
    /\ no_vertices = <<>>
    /\ pixel_pairs = <<>>
    /\ matrix = <<>>
    /\ rpc = "idle"

IdleBorder ==
    /\ centre = <<0, 0>>
    /\ coordinates = <<>>
    /\ border_thetas = <<>>
    /\ border_radii = <<>>
    /\ polynomial = <<>>
    /\ previous_coordinates = <<>>
    /\ relocations = 0

IdleAngle ==
    /\ angle_coordinates = <<>>
    /\ angle_from_x = 0
    /\ gpc = "idle"

IdleFit ==
    /\ fit_chi_squared = <<>>
    /\ fit_noise_normalization = <<>>
    /\ fit_inversion = <<>>
    /\ evidence_read = <<>>
    /\ figure_of_merit_read = <<>>

IdleFitting ==
    /\ lh_image = <<>>
    /\ lh_noise = <<>>
    /\ lh_model_image = <<>>
    /\ likelihood_returned = <<>>
    /\ pix_s_vector = <<>>
    /\ pix_blurred_mapping_matrix = <<>>
    /\ model_image_returned = <<>>

IdleInversion ==
    /\ tracer_has_pixelization = FALSE
    /\ lens_data_image_1d = <<>>
    /\ lens_data_noise_map_1d = <<>>
    /\ tracer_blurred_mapping_matrix = <<>>
    /\ tracer_regularization_matrix = <<>>
    /\ fit_model_image = <<>>
    /\ epc = "idle"

IdleVoronoi ==
    /\ ridge_points = <<>>
    /\ ridge_index = 0
    /\ voronoi_neighbors = <<>>
    /\ voronoi_neighbors_total = <<>>
    /\ vpc = "idle"

IdleHyperRun ==
    /\ hp_class = "idle"
    /\ hp_hyper_name = ""
    /\ hp_hyper_phases = <<>>
    /\ caller_results = <<>>
    /\ hp_results = <<>>
    /\ hp_results_shared = FALSE
    /\ hp_result = <<>>
    /\ hp_added = FALSE
    /\ hp_index = 0
    /\ hp_calls = <<>>
    /\ hp_returned = <<>>
    /\ hp_runs = 0
    /\ hpc = "idle"

IdleMake ==
    /\ wrapped_phase = <<>>
    /\ wrapped_hyper_name = ""
    /\ phase_at_construction = <<>>
    /\ made_phases = <<>>

IdleTransfer ==
    /\ variable_classes = {}
    /\ tc_instance = <<>>
    /\ tc_mapper = <<>>
    /\ tc_mapper_before = <<>>
    /\ tpc = "idle"

IdleHyperGalaxy ==
    /\ hg_model_image = <<>>
    /\ hg_galaxy_images = <<>>
    /\ hg_last = <<>>
    /\ hg_last_before = <<>>
    /\ hg_hyper_result = <<>>
    /\ hg_shared = FALSE
    /\ hg_fits = <<>>
    /\ hg_path = 0
    /\ hg_returned = <<>>
    /\ hgpc = "idle"

IdleNoiseMap ==
    /\ nm_noise_map_1d = <<>>
    /\ nm_noise_map_1d_before = <<>>
    /\ nm_hyper_noise_map_max = <<>>
    /\ nm_scaled_noise_map = <<>>
    /\ nm_hyper_noise_map_1d = <<>>
    /\ nm_returned = <<>>
    /\ nmpc = "idle"

IdleMap ==
    /\ source_pixel_total = 0
    /\ image_pixel_total = 0
    /\ sub_grid_size = 1
    /\ mm_sub_image_pixel_to_cluster_index = <<>>
    /\ sub_image_pixel_to_image_pixel_index = <<>>
    /\ mapping_matrix = <<>>
    /\ mpc = "idle"

NextAssign ==
    \/ NearestNeighbour
    \/ ForEnter
    \/ WalkBreak
    \/ WalkMove
    \/ WalkRaise
    \/ AssignReturn

AssignInit == InitAssign /\ IdleReg /\ IdleMap /\ IdleBorder /\ IdleAngle /\ IdleFit /\ IdleFitting /\ IdleInversion /\ IdleVoronoi /\ IdleHyperRun /\ IdleMake /\ IdleTransfer /\ IdleHyperGalaxy /\ IdleNoiseMap

SpecAssign == AssignInit /\ [][NextAssign]_vars

\* ================================================== regularization matrix
\* np.zeros(shape=(rows, columns))
zeros(rows, columns) == [r \in 1..rows |-> [c \in 1..columns |-> 0]]

\* the mutation of line 224: the weights taken unsquared
reg_weight_unsquared(weights) == weights

\* line 224: regularization_weights ** 2, element by element
reg_weight_of(weights) == [i \in 1..Len(weights) |-> weights[i] * weights[i]]

\* lines 226-227
RECURSIVE diagonal_loop(_, _, _, _, _)
diagonal_loop(m, i, dim, vertices, reg_weight) ==
    IF i > dim THEN m
    ELSE diagonal_loop([m EXCEPT ![i][i] = @ + vertices[i] * reg_weight[i]],
                       i + 1, dim, vertices, reg_weight)

\* the mutation of lines 230-235 that loses the last decrement (line 235)
pair_update_without_last_line(m, pair, reg_weight) ==
    LET m1 == [m  EXCEPT ![pair[1]][pair[1]] = @ + reg_weight[pair[2]]]
        m2 == [m1 EXCEPT ![pair[2]][pair[2]] = @ + reg_weight[pair[1]]]
        m3 == [m2 EXCEPT ![pair[1]][pair[2]] = @ - reg_weight[pair[1]]]
        m4 == [m3 EXCEPT ![pair[2]][pair[1]] = @ - reg_weight[pair[1]]]
        m5 == [m4 EXCEPT ![pair[1]][pair[2]] = @ - reg_weight[pair[2]]]
    IN  m5

\* the mutation of lines 230-235 that loses the diagonal increments (230-231)
pair_update_without_diagonal(m, pair, reg_weight) ==
    LET m3 == [m  EXCEPT ![pair[1]][pair[2]] = @ - reg_weight[pair[1]]]
        m4 == [m3 EXCEPT ![pair[2]][pair[1]] = @ - reg_weight[pair[1]]]
        m5 == [m4 EXCEPT ![pair[1]][pair[2]] = @ - reg_weight[pair[2]]]
        m6 == [m5 EXCEPT ![pair[2]][pair[1]] = @ - reg_weight[pair[2]]]
    IN  m6

\* lines 230-235: the six updates of one pair, in the order of the code
pair_update(m, pair, reg_weight) ==
    LET m1 == [m  EXCEPT ![pair[1]][pair[1]] = @ + reg_weight[pair[2]]]
        m2 == [m1 EXCEPT ![pair[2]][pair[2]] = @ + reg_weight[pair[1]]]
        m3 == [m2 EXCEPT ![pair[1]][pair[2]] = @ - reg_weight[pair[1]]]
        m4 == [m3 EXCEPT ![pair[2]][pair[1]] = @ - reg_weight[pair[1]]]
        m5 == [m4 EXCEPT ![pair[1]][pair[2]] = @ - reg_weight[pair[2]]]
        m6 == [m5 EXCEPT ![pair[2]][pair[1]] = @ - reg_weight[pair[2]]]
    IN  m6

\* lines 229-235
RECURSIVE pairs_loop(_, _, _, _)
pairs_loop(m, j, pairs, reg_weight) ==
    IF j > Len(pairs) THEN m
    ELSE pairs_loop(pair_update(m, pairs[j], reg_weight), j + 1, pairs, reg_weight)

make_via_pairs(dim, weights, vertices, pairs) ==
    LET reg_weight == reg_weight_of(weights)
    IN  pairs_loop(diagonal_loop(zeros(dim, dim), 1, dim, vertices, reg_weight),
                   1, pairs, reg_weight)

\* ------------------------------------------------- regularization: inputs
Weights == {1, 2}

\* the pairs a caller can list: any two cell indices, in either order
PixelPairs(dim) == (1..dim) \X (1..dim)

PairLists(dim) == UNION { [1..n -> PixelPairs(dim)] : n \in 0..MaxPairs }

\* the number of listed pairs a cell takes part in (Voronoi.neighbors_total)
DegreeOf(dim, pairs) ==
    [i \in 1..dim |->
        Cardinality({ k \in 1..Len(pairs) : pairs[k][1] = i \/ pairs[k][2] = i })]

NoVerticesInputs(dim, pairs) == { DegreeOf(dim, pairs), [i \in 1..dim |-> i] }

InitReg ==
    \E dim \in 1..MaxDimension :
      \E weights \in [1..dim -> Weights], pairs \in PairLists(dim) :
        \E vertices \in NoVerticesInputs(dim, pairs) :
          /\ dimension = dim
          /\ regularization_weights = weights
          /\ no_vertices = vertices
          /\ pixel_pairs = pairs
          /\ matrix = <<>>
          /\ rpc = "call"

\* ------------------------------------------------- regularization: actions
MakeViaPairs ==
    /\ rpc = "call"
    /\ matrix' = make_via_pairs(dimension, regularization_weights, no_vertices,
                                pixel_pairs)
    /\ rpc' = "returned"
    /\ UNCHANGED notRegVars
    /\ UNCHANGED <<dimension, regularization_weights, no_vertices, pixel_pairs>>

NextReg == MakeViaPairs

RegInit == InitReg /\ IdleAssign /\ IdleMap /\ IdleBorder /\ IdleAngle /\ IdleFit /\ IdleFitting /\ IdleInversion /\ IdleVoronoi /\ IdleHyperRun /\ IdleMake /\ IdleTransfer /\ IdleHyperGalaxy /\ IdleNoiseMap

SpecReg == RegInit /\ [][NextReg]_vars

\* ------------------------------------------------- regularization: claims
\* every listed pair is (i, j) with i < j and is listed once
PairsListedOnce ==
    /\ \A k \in 1..Len(pixel_pairs) : pixel_pairs[k][1] < pixel_pairs[k][2]
    /\ \A k, l \in 1..Len(pixel_pairs) : pixel_pairs[k] = pixel_pairs[l] => k = l

Partners(i) ==
    { k \in 1..dimension :
        \E n \in 1..Len(pixel_pairs) :
            pixel_pairs[n] = <<i, k>> \/ pixel_pairs[n] = <<k, i>> }

W2(i) == regularization_weights[i] * regularization_weights[i]

\* C6: the matrix returned by make_via_pairs is exactly symmetric, for any
\* weights and any list of pairs.
C6_Symmetric ==
    rpc = "returned"
    => \A i, j \in 1..dimension : matrix[i][j] = matrix[j][i]

\* a returned matrix built from unequal weights and from pairs listed in both
\* orders
C6_Witness ==
    /\ rpc = "returned"
    /\ \E k, l \in 1..Len(pixel_pairs) :
          /\ pixel_pairs[k][1] < pixel_pairs[k][2]
          /\ pixel_pairs[l][1] > pixel_pairs[l][2]
          /\ regularization_weights[pixel_pairs[k][1]]
                # regularization_weights[pixel_pairs[k][2]]
    /\ \A i, j \in 1..dimension : matrix[i][j] = matrix[j][i]

\* C7: with every pair (i, j), i < j, listed once: H[i][i] is
\* neighbor_count[i] * weight[i]^2 plus weight[k]^2 over the pair partners k of
\* i, H[i][j] = H[j][i] = -(weight[i]^2 + weight[j]^2) for a listed pair, and
\* every other off-diagonal entry is 0.
C7_Entries ==
    (rpc = "returned" /\ PairsListedOnce)
    => \A i, j \in 1..dimension :
          matrix[i][j] =
            IF i = j
            THEN no_vertices[i] * W2(i) + SeqSum([n \in 1..Len(AscSeq(Partners(i))) |->
                                                     W2(AscSeq(Partners(i))[n])])
            ELSE IF j \in Partners(i) THEN -(W2(i) + W2(j))
            ELSE 0

\* a returned matrix of three cells, two pairs listed once, unequal weights
C7_Witness ==
    /\ rpc = "returned"
    /\ PairsListedOnce
    /\ dimension = 3
    /\ Len(pixel_pairs) = 2
    /\ regularization_weights[1] # regularization_weights[2]
    /\ \E i, j \in 1..dimension : i # j /\ matrix[i][j] = 0
    /\ \E i, j \in 1..dimension : i # j /\ matrix[i][j] < 0

RECURSIVE Reach(_)
Reach(S) ==
    LET T == S \cup UNION { Partners(i) : i \in S }
    IN  IF T = S THEN S ELSE Reach(T)

\* a connected adjacency graph with uniform weights, each edge listed once and
\* neighbor_count the degree of each cell
ConnectedUniform ==
    /\ PairsListedOnce
    /\ Reach({1}) = 1..dimension
    /\ \A i \in 1..dimension : regularization_weights[i] = regularization_weights[1]
    /\ no_vertices = DegreeOf(dimension, pixel_pairs)

QuadraticForm(x) ==
    SeqSum([i \in 1..dimension |->
               SeqSum([j \in 1..dimension |-> x[i] * matrix[i][j] * x[j]])])

\* C8: for a connected adjacency graph with uniform weights the matrix is
\* symmetric and positive-semi-definite: x^T H x >= 0 for every vector x.
C8_PositiveSemiDefinite ==
    (rpc = "returned" /\ ConnectedUniform)
    => /\ \A i, j \in 1..dimension : matrix[i][j] = matrix[j][i]
       /\ \A x \in [1..dimension -> (-MaxX)..MaxX] : QuadraticForm(x) >= 0

\* a connected graph of three cells, and a vector on which the form vanishes
\* and one on which it is positive
C8_Witness ==
    /\ rpc = "returned"
    /\ ConnectedUniform
    /\ dimension = 3
    /\ \E x \in [1..dimension -> (-MaxX)..MaxX] : QuadraticForm(x) > 0
    /\ \E x \in [1..dimension -> (-MaxX)..MaxX] :
          (\E i \in 1..dimension : x[i] # 0) /\ QuadraticForm(x) = 0

\* ========================================================= mapping matrix
\* the mutation of line 429: sub_grid_size not squared
total_sub_pixels_unsquared(pixel_total, grid_size) == pixel_total * grid_size

\* line 429
total_sub_pixels_of(pixel_total, grid_size) == pixel_total * grid_size * grid_size

\* line 431: (1.0 / sub_grid_size) ** 2
sub_grid_fraction_of(grid_size) == RMul(RDiv(RInt(1), RInt(grid_size)),
                                        RDiv(RInt(1), RInt(grid_size)))

\* the mutation of line 437: the entry assigned instead of accumulated
assign_fraction(obj, cluster, pixel, fraction) ==
    [obj EXCEPT ![cluster][pixel] = fraction]

\* line 437: obj[cluster, pixel] += sub_grid_fraction
accumulate_fraction(obj, cluster, pixel, fraction) ==
    [obj EXCEPT ![cluster][pixel] = RAdd(@, fraction)]

\* lines 435-437
RECURSIVE sub_pixel_loop(_, _, _, _, _, _)
sub_pixel_loop(obj, i, total, to_cluster, to_pixel, fraction) ==
    IF i > total THEN obj
    ELSE sub_pixel_loop(accumulate_fraction(obj, to_cluster[i], to_pixel[i], fraction),
                        i + 1, total, to_cluster, to_pixel, fraction)

\* lines 429-439: np.zeros gives a matrix of shape (source pixels, image pixels)
MappingMatrix(source_total, pixel_total, grid_size, to_cluster, to_pixel) ==
    sub_pixel_loop([r \in 1..source_total |-> [c \in 1..pixel_total |-> RInt(0)]],
                   1, total_sub_pixels_of(pixel_total, grid_size),
                   to_cluster, to_pixel, sub_grid_fraction_of(grid_size))

\* ------------------------------------------------- mapping matrix: inputs
\* every image pixel is divided into grid_size^2 sub-pixels; the sub-pixels are
\* stored pixel after pixel, or dealt out to the pixels in turn
PixelOfSubPixel(pixel_total, grid_size, interleaved) ==
    [i \in 1..(pixel_total * grid_size * grid_size) |->
        IF interleaved THEN ((i - 1) % pixel_total) + 1
        ELSE ((i - 1) \div (grid_size * grid_size)) + 1]

InitMap ==
    \E grid_size \in 1..MaxSubPixels, pixel_total \in 1..MaxSubPixels :
      /\ pixel_total * grid_size * grid_size <= MaxSubPixels
      /\ \E source_total \in 1..MaxSourcePixels, interleaved \in BOOLEAN :
           \E to_cluster \in [1..(pixel_total * grid_size * grid_size)
                                 -> 1..source_total] :
             /\ source_pixel_total = source_total
             /\ image_pixel_total = pixel_total
             /\ sub_grid_size = grid_size
             /\ mm_sub_image_pixel_to_cluster_index = to_cluster
             /\ sub_image_pixel_to_image_pixel_index =
                   PixelOfSubPixel(pixel_total, grid_size, interleaved)
             /\ mapping_matrix = <<>>
             /\ mpc = "call"

\* ------------------------------------------------- mapping matrix: actions
NewMappingMatrix ==
    /\ mpc = "call"
    /\ mapping_matrix' =
          MappingMatrix(source_pixel_total, image_pixel_total, sub_grid_size,
                        mm_sub_image_pixel_to_cluster_index,
                        sub_image_pixel_to_image_pixel_index)
    /\ mpc' = "returned"
    /\ UNCHANGED notMapVars
    /\ UNCHANGED <<source_pixel_total, image_pixel_total, sub_grid_size,
                   mm_sub_image_pixel_to_cluster_index,
                   sub_image_pixel_to_image_pixel_index>>

NextMap == NewMappingMatrix

MapInit == InitMap /\ IdleAssign /\ IdleReg /\ IdleBorder /\ IdleAngle /\ IdleFit /\ IdleFitting /\ IdleInversion /\ IdleVoronoi /\ IdleHyperRun /\ IdleMake /\ IdleTransfer /\ IdleHyperGalaxy /\ IdleNoiseMap

SpecMap == MapInit /\ [][NextMap]_vars

\* ------------------------------------------------- mapping matrix: claims
\* C4: for every observed pixel and any sub-grid factor >= 1 the entries of the
\* pixel's column sum to 1.
C4_ColumnsSumToOne ==
    mpc = "returned"
    => \A pixel \in 1..image_pixel_total :
          RSeqSum([cell \in 1..source_pixel_total |-> mapping_matrix[cell][pixel]])
            = RInt(1)

\* a returned matrix with sub-grid factor 2 and a pixel split between two cells
C4_Witness ==
    /\ mpc = "returned"
    /\ sub_grid_size = 2
    /\ image_pixel_total = 2
    /\ \E pixel \in 1..image_pixel_total :
          /\ mapping_matrix[1][pixel] = Rat(1, 4)
          /\ mapping_matrix[2][pixel] = Rat(3, 4)

SubPixelsOf(cell, pixel) ==
    { i \in 1..Len(sub_image_pixel_to_image_pixel_index) :
        /\ sub_image_pixel_to_image_pixel_index[i] = pixel
        /\ mm_sub_image_pixel_to_cluster_index[i] = cell }

OnAxis(shifted) == shifted[1][1] = 0 \/ shifted[2][1] = 0

\* Profile.coordinates_to_centre: the coordinates relative to the centre
coordinates_to_centre(coordinate) ==
    <<RSub(coordinate[1], RInt(centre[1])), RSub(coordinate[2], RInt(centre[2]))>>

\* Profile.coordinates_to_radius: sqrt(dx^2 + dy^2) of the shifted coordinates
coordinates_to_radius(coordinate) ==
    LET shifted == coordinates_to_centre(coordinate)
    IN  CASE shifted[2][1] = 0 -> RAbs(shifted[1])
          [] shifted[1][1] = 0 -> RAbs(shifted[2])

\* A double near 0 that is not an integer is kept as <<whole, offset>>: the
\* number of whole degrees and the sign of an offset smaller than 2^-45
\* degrees, half the spacing 2^-44 of the doubles from 256 to 512.
\*
\* a point at most 2^-51 radians below the positive x-axis: dy < 0 < dx with
\* |dy| / dx <= 2^-51, so that arctan2 lies in (-2^-51, 0) radians and its
\* degrees in (-2^-45, 0)
JustBelowPositiveXAxis(y, x) ==
    /\ x[1] > 0
    /\ y[1] < 0
    /\ y[2] >= (2 ^ 26) * Abs(y[1])
    /\ x[1] >= (2 ^ 25) * x[2]

\* line 30: math.degrees(np.arctan2(y, x)), where the model can tell it: on the
\* axes and the diagonals, where it is a whole number of degrees, and just
\* below the positive x-axis
degrees_of_arctan2(y, x) ==
    CASE y[1] = 0 /\ x[1] >= 0 -> <<0, 0>>
      [] y[1] = 0 /\ x[1] < 0  -> <<180, 0>>
      [] x[1] = 0 /\ y[1] > 0  -> <<90, 0>>
      [] x[1] = 0 /\ y[1] < 0  -> <<-90, 0>>
      [] RAbs(y) = RAbs(x) /\ y[1] > 0 /\ x[1] > 0 -> <<45, 0>>
      [] RAbs(y) = RAbs(x) /\ y[1] > 0 /\ x[1] < 0 -> <<135, 0>>
      [] RAbs(y) = RAbs(x) /\ y[1] < 0 /\ x[1] < 0 -> <<-135, 0>>
      [] RAbs(y) = RAbs(x) /\ y[1] < 0 /\ x[1] > 0 -> <<-45, 0>>
      [] JustBelowPositiveXAxis(y, x) -> <<0, -1>>

\* line 31: theta_from_x < 0.0
float_less_than_zero(a) == a[1] < 0 \/ (a[1] = 0 /\ a[2] < 0)

\* line 32: the double nearest to a + n.  From 256 to 512 the doubles are 2^-44
\* apart, so an offset below 2^-45 is rounded away.
float_add(a, n) ==
    CASE a[2] = 0 -> a[1] + n
      [] a[2] # 0 /\ a[1] + n >= 256 /\ a[1] + n <= 512 -> a[1] + n

\* lines 29-33: degrees of arctan2(dy, dx), 360 added when negative
coordinates_angle_from_x(coordinate) ==
    LET shifted == coordinates_to_centre(coordinate)
        theta_from_x == degrees_of_arctan2(shifted[2], shifted[1])
    IN  IF float_less_than_zero(theta_from_x) THEN float_add(theta_from_x, 360)
        ELSE theta_from_x[1]

\* line 113: np.polyfit over degree + 1 points of distinct angles is the
\* polynomial of that degree through them; it is kept as the points it passes
\* through
polyfit(thetas, radii, degree) ==
    [k \in 1..(degree + 1) |-> <<thetas[k], radii[k]>>]

\* the value at x of the polynomial through the points (Lagrange's formula)
polyval(points, x) ==
    RSeqSum([k \in 1..Len(points) |->
                RMul(points[k][2],
                     RSeqProduct([j \in 1..Len(points) |->
                                     IF j = k THEN RInt(1)
                                     ELSE Rat(x - points[j][1],
                                              points[k][1] - points[j][1])]))])

\* lines 115-117: np.polyval of the fitted polynomial at theta
border_radius_at_theta(theta) == polyval(polynomial, theta)

\* the mutation of line 135: the comparison turned round
move_factor_comparison_turned(coordinate) ==
    LET theta == coordinates_angle_from_x(coordinate)
        radius == coordinates_to_radius(coordinate)
        border_radius == border_radius_at_theta(theta)
    IN  IF RLess(radius, border_radius) THEN RDiv(border_radius, radius) ELSE RInt(1)

\* lines 130-138
move_factor(coordinate) ==
    LET theta == coordinates_angle_from_x(coordinate)
        radius == coordinates_to_radius(coordinate)
        border_radius == border_radius_at_theta(theta)
    IN  IF RLess(border_radius, radius) THEN RDiv(border_radius, radius) ELSE RInt(1)

\* lines 148-149
relocated_coordinate(coordinate) ==
    LET factor == move_factor(coordinate)
    IN  <<RMul(coordinate[1], factor), RMul(coordinate[2], factor)>>

\* ------------------------------------------------------------ border: inputs
CoordinateCounts == {1, 2}

Directions == { <<1, 0>>, <<0, 1>>, <<-1, 0>>, <<0, -1>> }

\* the point at distance r from centre c in direction d
PointAt(c, d, r) == <<RInt(c[1] + r * d[1]), RInt(c[2] + r * d[2])>>

\* the polynomial_degree argument of SourcePlaneBorder
PolynomialDegrees == {2, 3}

\* the border: points on the axes through the centre c at angles 0, 90, 180
\* (and 270), as many as the polynomial has coefficients
BorderCoordinates(c, radius_x, radius_y, degree) ==
    SubSeq(<< PointAt(c, <<1, 0>>, radius_x), PointAt(c, <<0, 1>>, radius_y),
              PointAt(c, <<-1, 0>>, radius_x), PointAt(c, <<0, -1>>, radius_y) >>,
           1, degree + 1)

InitBorder ==
    \E c \in (0..MaxCentre) \X (0..MaxCentre), n \in CoordinateCounts :
      \E radius_x, radius_y \in 1..MaxBorderRadius, degree \in PolynomialDegrees,
         ds \in [1..n -> Directions], rs \in [1..n -> 0..MaxRadius] :
        /\ centre = c
        /\ coordinates = [i \in 1..n |-> PointAt(c, ds[i], rs[i])]
        \* lines 110-113
        /\ LET border == BorderCoordinates(c, radius_x, radius_y, degree)
               thetas == [k \in 1..Len(border) |-> coordinates_angle_from_x(border[k])]
               radii == [k \in 1..Len(border) |-> coordinates_to_radius(border[k])]
           IN  /\ border_thetas = thetas
               /\ border_radii = radii
               /\ polynomial = polyfit(thetas, radii, degree)
        /\ previous_coordinates = <<>>
        /\ relocations = 0

\* ----------------------------------------------------------- border: actions
\* lines 61-63: every coordinate is replaced by its relocation
RelocateCoordinatesOutsideBorder ==
    /\ relocations < MaxRelocations
    /\ coordinates # <<>>
    /\ \A i \in 1..Len(coordinates) : OnAxis(coordinates_to_centre(coordinates[i]))
    /\ coordinates' = [i \in 1..Len(coordinates) |-> relocated_coordinate(coordinates[i])]
    /\ previous_coordinates' = coordinates
    /\ relocations' = relocations + 1
    /\ UNCHANGED notBorderVars
    /\ UNCHANGED <<centre, border_thetas, border_radii, polynomial>>

NextBorder == RelocateCoordinatesOutsideBorder

BorderInit == InitBorder /\ IdleAssign /\ IdleReg /\ IdleMap /\ IdleAngle /\ IdleFit /\ IdleFitting /\ IdleInversion /\ IdleVoronoi /\ IdleHyperRun /\ IdleMake /\ IdleTransfer /\ IdleHyperGalaxy /\ IdleNoiseMap

SpecBorder == BorderInit /\ [][NextBorder]_vars

\* ------------------------------------------------------------ border: claims
StrictlyInside(coordinate) ==
    RLess(coordinates_to_radius(coordinate),
          border_radius_at_theta(coordinates_angle_from_x(coordinate)))

Outside(coordinate) ==
    RLess(border_radius_at_theta(coordinates_angle_from_x(coordinate)),
          coordinates_to_radius(coordinate))

\* the square of the radius of a coordinate about the centre
RadiusSquared(coordinate) ==
    LET shifted == coordinates_to_centre(coordinate)
    IN  RAdd(RMul(shifted[1], shifted[1]), RMul(shifted[2], shifted[2]))

\* C9: a coordinate strictly inside the fitted border is relocated to itself,
\* for any centre.
C9_InsideUnchanged ==
    relocations > 0
    => \A i \in 1..Len(coordinates) :
          StrictlyInside(previous_coordinates[i])
          => coordinates[i] = previous_coordinates[i]

\* a relocation about a centre other than (0, 0) that moved one coordinate and
\* left alone another, strictly inside and off the centre
C9_Witness ==
    /\ relocations = 1
    /\ centre # <<0, 0>>
    /\ \E i, j \in 1..Len(coordinates) :
          /\ StrictlyInside(previous_coordinates[i])
          /\ coordinates_to_radius(previous_coordinates[i]) # RInt(0)
          /\ coordinates[i] = previous_coordinates[i]
          /\ coordinates[j] # previous_coordinates[j]

\* C10: for a coordinate outside the border the radius of its relocation about
\* the centre is the border radius at the coordinate's angle, for any centre.
C10_OutsideLandsOnBorder ==
    relocations > 0
    => \A i \in 1..Len(coordinates) :
          Outside(previous_coordinates[i])
          => LET border_radius ==
                     border_radius_at_theta(coordinates_angle_from_x(previous_coordinates[i]))
             IN  RadiusSquared(coordinates[i]) = RMul(border_radius, border_radius)

\* the same with the centre at (0, 0)
C10_CentredAtOrigin ==
    (relocations > 0 /\ centre = <<0, 0>>)
    => \A i \in 1..Len(coordinates) :
          Outside(previous_coordinates[i])
          => LET border_radius ==
                     border_radius_at_theta(coordinates_angle_from_x(previous_coordinates[i]))
             IN  RadiusSquared(coordinates[i]) = RMul(border_radius, border_radius)

\* C11: relocation is idempotent: a second relocate_coordinates_outside_border
\* leaves every coordinate where the first one put it, for every coordinate and
\* every fitted border.
C11_RelocationIdempotent ==
    relocations = 2 => coordinates = previous_coordinates

\* the same with the centre at (0, 0) and a border radius above 0 at every
\* angle of a coordinate
C11_CentredAtOrigin ==
    (/\ relocations = 2
     /\ centre = <<0, 0>>
     /\ \A k \in 1..Len(polynomial) : RLess(RInt(0), border_radius_at_theta(90 * (k - 1))))
    => coordinates = previous_coordinates

\* C12: the move factor of every coordinate, for every fitted border, lies in
\* (0, 1]: border_radius / radius when the radius exceeds the border radius at
\* the coordinate's angle, and 1 otherwise.
C12_MoveFactorInUnitInterval ==
    relocations = 1
    => \A i \in 1..Len(previous_coordinates) :
          LET coordinate == previous_coordinates[i]
              factor == move_factor(coordinate)
              border_radius == border_radius_at_theta(coordinates_angle_from_x(coordinate))
          IN  /\ RLess(RInt(0), factor)
              /\ ~RLess(RInt(1), factor)
              /\ factor = IF Outside(coordinate)
                             THEN RDiv(border_radius, coordinates_to_radius(coordinate))
                             ELSE RInt(1)

\* ======================================================== angle from x-axis
Diagonals == { <<1, 1>>, <<-1, 1>>, <<-1, -1>>, <<1, -1>> }

\* offsets from the centre of points just below the positive x-axis
ShallowOffsets == { <<RInt(2 ^ 26), Rat(-1, 2 ^ 26)>>, <<RInt(2 ^ 25), Rat(-1, 2 ^ 26)>> }

\* the points of the model about the centre c: on the axes, on the diagonals
\* and just below the positive x-axis
AnglePoints(c) ==
    { PointAt(c, d, r) : d \in Directions \cup Diagonals, r \in 0..MaxRadius }
      \cup { <<RAdd(RInt(c[1]), o[1]), RAdd(RInt(c[2]), o[2])>> : o \in ShallowOffsets }

InitAngle ==
    \E c \in (0..MaxCentre) \X (0..MaxCentre) :
      \E point \in AnglePoints(c) :
        /\ centre = c
        /\ angle_coordinates = point
        /\ angle_from_x = 0
        /\ gpc = "call"
        /\ coordinates = <<>>
        /\ border_thetas = <<>>
        /\ border_radii = <<>>
        /\ polynomial = <<>>
        /\ previous_coordinates = <<>>
        /\ relocations = 0

\* lines 16-33
CoordinatesAngleFromX ==
    /\ gpc = "call"
    /\ angle_from_x' = coordinates_angle_from_x(angle_coordinates)
    /\ gpc' = "returned"
    /\ UNCHANGED notAngleVars
    /\ UNCHANGED angle_coordinates

NextAngle == CoordinatesAngleFromX

AngleInit == InitAngle /\ IdleAssign /\ IdleReg /\ IdleMap /\ IdleFit /\ IdleFitting /\ IdleInversion /\ IdleVoronoi /\ IdleHyperRun /\ IdleMake /\ IdleTransfer /\ IdleHyperGalaxy /\ IdleNoiseMap

SpecAngle == AngleInit /\ [][NextAngle]_vars

\* --------------------------------------------------------- angle: claims
\* C13: for every centre and every point the returned angle lies in [0, 360).
C13_AngleInHalfOpenRange ==
    gpc = "returned" => (0 <= angle_from_x /\ angle_from_x < 360)

\* the same with 360 let in
C13_AngleInClosedRange ==
    gpc = "returned" => (0 <= angle_from_x /\ angle_from_x <= 360)

\* ================================================================ image fit
\* A Python value that may be None is a sequence: None is <<>>, a value v is
\* <<v>>.  What a property returned is kept the same way: <<>> before the
\* read, <<r>> once it returned r.
None == <<>>
Some(v) == <<v>>
NotRead == <<>>
Returned(r) == <<r>>

\* the mutation of lines 351-357: the signs of the two log-determinants swapped
evidence_with_determinant_signs_swapped(chi_squared, regularization_term, log_curvature_regularization_term, log_regularization_term, noise_normalization) ==
    VScale(Rat(-1, 2),
           VAdd(VAdd(VSub(VAdd(chi_squared, regularization_term),
                          log_curvature_regularization_term),
                     log_regularization_term),
                noise_normalization))

\* lines 324-357
evidence_from_inversion_terms(chi_squared, regularization_term, log_curvature_regularization_term, log_regularization_term, noise_normalization) ==
    VScale(Rat(-1, 2),
           VAdd(VSub(VAdd(VAdd(chi_squared, regularization_term),
                          log_curvature_regularization_term),
                     log_regularization_term),
                noise_normalization))

\* af.DataFit.likelihood: -0.5 * (chi_squared + noise_normalization)
likelihood_from_chi_squared_and_noise_normalization(chi_squared, noise_normalization) ==
    VScale(Rat(-1, 2), VAdd(chi_squared, noise_normalization))

\* self.likelihood
likelihood ==
    likelihood_from_chi_squared_and_noise_normalization(fit_chi_squared, fit_noise_normalization)

\* the mutation of line 69: the test of the inversion lost, its terms taken as
\* zero when there is none
evidence_without_inversion_test ==
    IF fit_inversion # None
    THEN Some(evidence_from_inversion_terms(fit_chi_squared,
                                            fit_inversion[1].regularization_term,
                                            fit_inversion[1].log_det_curvature_reg_matrix_term,
                                            fit_inversion[1].log_det_regularization_matrix_term,
                                            fit_noise_normalization))
    ELSE Some(evidence_from_inversion_terms(fit_chi_squared, VInt(0), VInt(0), VInt(0),
                                            fit_noise_normalization))

\* lines 67-76: the property evidence; without an inversion the body falls
\* through and returns None
evidence ==
    IF fit_inversion # None
    THEN Some(evidence_from_inversion_terms(fit_chi_squared,
                                            fit_inversion[1].regularization_term,
                                            fit_inversion[1].log_det_curvature_reg_matrix_term,
                                            fit_inversion[1].log_det_regularization_matrix_term,
                                            fit_noise_normalization))
    ELSE None

\* the mutation of lines 80-83: the evidence whatever the inversion
figure_of_merit_always_evidence == evidence

\* lines 78-83: the property figure_of_merit
figure_of_merit ==
    IF fit_inversion = None THEN Some(likelihood) ELSE evidence

\* ------------------------------------------------------- image fit: inputs
Terms == { VInt(n) : n \in (-MaxTerm)..MaxTerm }

\* the inversion handed to ImageFit.__init__: None, or an object with the
\* three terms the fit reads from it
Inversions ==
    {None} \cup { Some(inv) : inv \in [regularization_term : Terms,
                                       log_det_curvature_reg_matrix_term : Terms,
                                       log_det_regularization_matrix_term : Terms] }

\* lines 10-22: ImageFit.__init__
InitFit ==
    \E chi \in Terms, noise_term \in Terms, inv \in Inversions :
        /\ fit_chi_squared = chi
        /\ fit_noise_normalization = noise_term
        /\ fit_inversion = inv
        /\ evidence_read = NotRead
        /\ figure_of_merit_read = NotRead

\* ------------------------------------------------------ image fit: actions
\* a read of fit.evidence, of a fit that exists
Evidence ==
    /\ fit_chi_squared # <<>>
    /\ evidence_read' = Returned(evidence)
    /\ UNCHANGED notFitVars
    /\ UNCHANGED <<fit_chi_squared, fit_noise_normalization, fit_inversion, figure_of_merit_read>>

\* a read of fit.figure_of_merit, of a fit that exists
FigureOfMerit ==
    /\ fit_chi_squared # <<>>
    /\ figure_of_merit_read' = Returned(figure_of_merit)
    /\ UNCHANGED notFitVars
    /\ UNCHANGED <<fit_chi_squared, fit_noise_normalization, fit_inversion, evidence_read>>

NextFit == Evidence \/ FigureOfMerit

FitInit == InitFit /\ IdleAssign /\ IdleReg /\ IdleMap /\ IdleBorder /\ IdleAngle /\ IdleFitting /\ IdleInversion /\ IdleVoronoi /\ IdleHyperRun /\ IdleMake /\ IdleTransfer /\ IdleHyperGalaxy /\ IdleNoiseMap

SpecFit == FitInit /\ [][NextFit]_vars

\* ------------------------------------------------------- image fit: claims
\* the terms here are whole numbers: the number a term stands for
TermOf(v) == v[1][1]

\* C14: the evidence is -0.5 * (chi_squared + regularization_term + log|F+H|
\* - log|H| + noise_normalization) for all values of the five terms, log|F+H|
\* entering with a plus sign and log|H| with a minus sign.
C14_Evidence ==
    (evidence_read # NotRead /\ fit_inversion # None)
    => evidence_read =
         Returned(Some(VRat(Rat(0 - (TermOf(fit_chi_squared)
                        + TermOf(fit_inversion[1].regularization_term)
                        + TermOf(fit_inversion[1].log_det_curvature_reg_matrix_term)
                        - TermOf(fit_inversion[1].log_det_regularization_matrix_term)
                        + TermOf(fit_noise_normalization)), 2))))

\* an evidence read where the two log-determinants differ: log|F+H| = 1 and
\* log|H| = -1 with the other terms 0 give -0.5 * (1 - (-1)) = -1
C14_Witness ==
    /\ fit_inversion # None
    /\ fit_chi_squared = VInt(0)
    /\ fit_noise_normalization = VInt(0)
    /\ fit_inversion[1].regularization_term = VInt(0)
    /\ fit_inversion[1].log_det_curvature_reg_matrix_term = VInt(1)
    /\ fit_inversion[1].log_det_regularization_matrix_term = VInt(-1)
    /\ evidence_read = Returned(Some(VInt(-1)))

\* C15: without an inversion the figure of merit is the likelihood, built from
\* the chi-squared and the noise normalization only; with an inversion it is
\* the evidence.
C15_FigureOfMerit ==
    figure_of_merit_read # NotRead
    => IF fit_inversion = None
       THEN figure_of_merit_read =
              Returned(Some(VRat(Rat(0 - (TermOf(fit_chi_squared) + TermOf(fit_noise_normalization)), 2))))
       ELSE figure_of_merit_read =
              Returned(Some(VRat(Rat(0 - (TermOf(fit_chi_squared)
                             + TermOf(fit_inversion[1].regularization_term)
                             + TermOf(fit_inversion[1].log_det_curvature_reg_matrix_term)
                             - TermOf(fit_inversion[1].log_det_regularization_matrix_term)
                             + TermOf(fit_noise_normalization)), 2))))

\* a figure of merit read without an inversion: chi-squared 1 and noise
\* normalization 1 give -1
C15_Witness ==
    /\ fit_inversion = None
    /\ fit_chi_squared = VInt(1)
    /\ fit_noise_normalization = VInt(1)
    /\ figure_of_merit_read = Returned(Some(VInt(-1)))

\* ================================================================== fitting
\* The functions of auto_lens/analysis/fitting.py that test_fitting.py calls.
\* Vectors are sequences of whole numbers; a matrix is the sequence of its rows.
\*
\* compute_chi_sq_term: the sum over the pixels of ((image - model_image) / noise)^2
compute_chi_sq_term(image, noise, model_image) ==
    RSeqSum([i \in 1..Len(image) |->
                RMul(Rat(image[i] - model_image[i], noise[i]),
                     Rat(image[i] - model_image[i], noise[i]))])

\* compute_noise_term: the sum over the pixels of log(2 pi noise^2)
compute_noise_term(noise) ==
    VSeqSum([i \in 1..Len(noise) |-> VLog(1, RInt(noise[i] * noise[i]))])

\* the mutation of compute_likelihood: the residuals not divided by the noise
compute_likelihood_without_noise_weights(image, noise, model_image) ==
    VScale(Rat(-1, 2),
           VAdd(VRat(compute_chi_sq_term(image, [i \in 1..Len(noise) |-> 1], model_image)),
                compute_noise_term(noise)))

\* compute_likelihood: -0.5 * (chi_sq_term + noise_term)
compute_likelihood(image, noise, model_image) ==
    VScale(Rat(-1, 2),
           VAdd(VRat(compute_chi_sq_term(image, noise, model_image)),
                compute_noise_term(noise)))

\* the mutation of pixelization_model_image_from_s_vector: the mapping entries
\* summed without the fluxes
pixelization_model_image_without_fluxes(s_vector, blurred_mapping_matrix) ==
    [i \in 1..Len(blurred_mapping_matrix) |->
        SeqSum([j \in 1..Len(s_vector) |-> blurred_mapping_matrix[i][j]])]

\* pixelization_model_image_from_s_vector: the product of the blurred mapping
\* matrix (one row for each observed pixel) and the vector s
pixelization_model_image_from_s_vector(s_vector, blurred_mapping_matrix) ==
    [i \in 1..Len(blurred_mapping_matrix) |->
        SeqSum([j \in 1..Len(s_vector) |-> blurred_mapping_matrix[i][j] * s_vector[j]])]

\* --------------------------------------------------------- fitting: inputs
\* test_fitting.py, lines 335-380: the arguments of the three calls
TestLikelihood ==
    { << <<10, 10, 10, 10>>, <<2, 2, 2, 2>>, <<10, 10, 10, 10>> >>,
      << <<10, 10, 10, 10>>, <<2, 2, 2, 2>>, <<11, 10, 9, 8>> >>,
      << <<10, 10, 10, 10>>, <<1, 2, 3, 4>>, <<11, 10, 9, 8>> >> }

\* test_fitting.py, lines 476-508: the arguments of the two calls
TestPixModelImageFromSVector ==
    { << <<1, 1, 1, 1>>, << <<1, 1, 1, 1>>, <<1, 0, 1, 1>>, <<1, 0, 0, 0>> >> >>,
      << <<1, 2, 3, 4>>, << <<1, 1, 1, 1>>, <<1, 0, 1, 1>>, <<1, 0, 0, 0>> >> >> }

LikelihoodInputs ==
    TestLikelihood
      \cup UNION { [1..n -> 0..MaxFlux] \X [1..n -> 1..MaxNoise] \X [1..n -> 0..MaxFlux] :
                     n \in 1..MaxPixels }

ModelImageInputs ==
    TestPixModelImageFromSVector
      \cup UNION { [1..cells -> 0..MaxFlux] \X [1..pixels -> [1..cells -> {0, 1}]] :
                     cells \in 1..MaxPixels, pixels \in 1..MaxPixels }

InitFitting ==
    /\ likelihood_returned = NotRead
    /\ model_image_returned = NotRead
    /\ \/ \E input \in LikelihoodInputs :
             /\ lh_image = input[1]
             /\ lh_noise = input[2]
             /\ lh_model_image = input[3]
             /\ pix_s_vector = <<>>
             /\ pix_blurred_mapping_matrix = <<>>
       \/ \E input \in ModelImageInputs :
             /\ pix_s_vector = input[1]
             /\ pix_blurred_mapping_matrix = input[2]
             /\ lh_image = <<>>
             /\ lh_noise = <<>>
             /\ lh_model_image = <<>>

\* -------------------------------------------------------- fitting: actions
ComputeLikelihood ==
    /\ lh_image # <<>>
    /\ likelihood_returned = NotRead
    /\ likelihood_returned' = Returned(compute_likelihood(lh_image, lh_noise, lh_model_image))
    /\ UNCHANGED notFittingVars
    /\ UNCHANGED <<lh_image, lh_noise, lh_model_image, pix_s_vector,
                   pix_blurred_mapping_matrix, model_image_returned>>

PixelizationModelImageFromSVector ==
    /\ pix_blurred_mapping_matrix # <<>>
    /\ model_image_returned = NotRead
    /\ model_image_returned' =
          Returned(pixelization_model_image_from_s_vector(pix_s_vector,
                                                          pix_blurred_mapping_matrix))
    /\ UNCHANGED notFittingVars
    /\ UNCHANGED <<lh_image, lh_noise, lh_model_image, likelihood_returned,
                   pix_s_vector, pix_blurred_mapping_matrix>>

NextFitting == ComputeLikelihood \/ PixelizationModelImageFromSVector

FittingInit == InitFitting /\ IdleAssign /\ IdleReg /\ IdleMap /\ IdleBorder /\ IdleAngle /\ IdleFit /\ IdleInversion /\ IdleVoronoi /\ IdleHyperRun /\ IdleMake /\ IdleTransfer /\ IdleHyperGalaxy /\ IdleNoiseMap

SpecFitting == FittingInit /\ [][NextFitting]_vars

\* --------------------------------------------------------- fitting: claims
\* the pixels whose noise is n
PixelsOfNoise(n) == { i \in 1..Len(lh_noise) : lh_noise[i] = n }

\* the sum of the fluxes s[j] over the cells j of a set
RECURSIVE FluxOver(_, _)
FluxOver(cells, s) ==
    IF cells = {} THEN 0
    ELSE LET j == CHOOSE c \in cells : TRUE
         IN  s[j] + FluxOver(cells \ {j}, s)

\* C16: compute_likelihood returns -0.5 * (chi_squared_term + noise_term): its
\* part free of logarithms is -0.5 times the sum over the pixels of
\* ((image - model_image) / noise)^2, and log(2 pi n^2) enters -0.5 times for
\* each pixel of noise n; with image = model_image in every pixel the chi-squared
\* part is 0 and only -0.5 times the noise normalization is left.
C16_Likelihood ==
    likelihood_returned # NotRead
    => LET returned == likelihood_returned[1]
           squares == [i \in 1..Len(lh_image) |->
                          Rat((lh_image[i] - lh_model_image[i]) * (lh_image[i] - lh_model_image[i]),
                              lh_noise[i] * lh_noise[i])]
       IN  /\ RAdd(RAdd(returned[1], returned[1]), RSeqSum(squares)) = RInt(0)
           /\ \A a \in DOMAIN returned[2] :
                 \E i \in 1..Len(lh_noise) : a = <<1, RInt(lh_noise[i] * lh_noise[i])>>
           /\ \A i \in 1..Len(lh_noise) :
                 VCoefficient(returned, <<1, RInt(lh_noise[i] * lh_noise[i])>>)
                   = Rat(0 - Cardinality(PixelsOfNoise(lh_noise[i])), 2)
           /\ (lh_image = lh_model_image => returned[1] = RInt(0))

\* test__model_matches_data__noise_all_2s__lh_is_noise_term: the likelihood is
\* -0.5 * 4 * log(2 pi 4)
C16_Witness ==
    /\ lh_image = <<10, 10, 10, 10>>
    /\ lh_noise = <<2, 2, 2, 2>>
    /\ lh_model_image = <<10, 10, 10, 10>>
    /\ likelihood_returned = Returned(<<RInt(0), [a \in {<<1, RInt(4)>>} |-> RInt(-2)]>>)

\* C17: the model image is the projection of s through the blurred mapping
\* matrix: the value of an observed pixel is the sum over the cells of mapping
\* entry times cell flux (for entries 0 and 1: the sum of the fluxes of the
\* cells the pixel maps to); the matrix [[1,1,1,1],[1,0,1,1],[1,0,0,0]] with
\* s = [1,2,3,4] gives [10,8,1].
C17_ModelImage ==
    model_image_returned # NotRead
    => LET returned == model_image_returned[1]
       IN  /\ Len(returned) = Len(pix_blurred_mapping_matrix)
           /\ \A i \in 1..Len(pix_blurred_mapping_matrix) :
                 returned[i] =
                   FluxOver({ j \in 1..Len(pix_s_vector) : pix_blurred_mapping_matrix[i][j] = 1 },
                            pix_s_vector)
           /\ (/\ pix_s_vector = <<1, 2, 3, 4>>
               /\ pix_blurred_mapping_matrix = << <<1, 1, 1, 1>>, <<1, 0, 1, 1>>, <<1, 0, 0, 0>> >>)
              => returned = <<10, 8, 1>>

\* test__s_vector_different_values__simple_blurred_mapping_matrix__correct_model_image
C17_Witness ==
    /\ pix_s_vector = <<1, 2, 3, 4>>
    /\ pix_blurred_mapping_matrix = << <<1, 1, 1, 1>>, <<1, 0, 1, 1>>, <<1, 0, 0, 0>> >>
    /\ model_image_returned = Returned(<<10, 8, 1>>)

\* ======================================================== linear inversion
\* LensImageFit.from_lens_data_and_tracer and the inversion it asks the tracer
\* for.  The blurred mapping matrix M has one row for each observed pixel and
\* one column for each cell; matrices of one or two cells are covered.
\*
\* step 1: the curvature matrix F = M^T diag(1 / noise^2) M
curvature_matrix(M, noise) ==
    [j \in 1..Len(M[1]) |-> [k \in 1..Len(M[1]) |->
        RSeqSum([i \in 1..Len(M) |-> Rat(M[i][j] * M[i][k], noise[i] * noise[i])])]]

\* step 2: the data vector D = M^T diag(1 / noise^2) image
data_vector(M, noise, image) ==
    [j \in 1..Len(M[1]) |->
        RSeqSum([i \in 1..Len(M) |-> RMul(Rat(M[i][j], noise[i] * noise[i]), image[i])])]

\* F + H
curvature_reg_matrix(F, H) ==
    [j \in 1..Len(F) |-> [k \in 1..Len(F) |-> RAdd(F[j][k], RInt(H[j][k]))]]

determinant(A) ==
    IF Len(A) = 1 THEN A[1][1]
    ELSE RSub(RMul(A[1][1], A[2][2]), RMul(A[1][2], A[2][1]))

\* a symmetric matrix is positive definite when its leading minors are positive
is_positive_definite(A) ==
    /\ RLess(RInt(0), A[1][1])
    /\ RLess(RInt(0), determinant(A))

\* step 3: the solution s of A s = D (Cramer's rule)
solve(A, D) ==
    IF Len(A) = 1 THEN <<RDiv(D[1], A[1][1])>>
    ELSE << RDiv(RSub(RMul(D[1], A[2][2]), RMul(A[1][2], D[2])), determinant(A)),
            RDiv(RSub(RMul(A[1][1], D[2]), RMul(D[1], A[2][1])), determinant(A)) >>

\* step 4: M s
mapped_reconstructed_data(M, reconstruction) ==
    [i \in 1..Len(M) |->
        RSeqSum([j \in 1..Len(reconstruction) |-> RMul(RInt(M[i][j]), reconstruction[j])])]

\* step 6: s^T H s
regularization_term_of(H, reconstruction) ==
    RSeqSum([j \in 1..Len(H) |->
        RSeqSum([k \in 1..Len(H) |->
            RMul(RMul(reconstruction[j], RInt(H[j][k])), reconstruction[k])])])

\* step 3: the solve fails with SingularSystemError when F + H is not positive
\* definite
inversion_raises_SingularSystemError(image, noise, M, H) ==
    ~is_positive_definite(curvature_reg_matrix(curvature_matrix(M, noise), H))

\* tracer.inversion_from_grid_image_1d_noise_map_1d_and_convolver, when it
\* does not fail: steps 1 to 4, 6 and 8
inversion_from_grid_image_1d_noise_map_1d_and_convolver(image, noise, M, H) ==
    LET curvature_reg == curvature_reg_matrix(curvature_matrix(M, noise), H)
        reconstruction == solve(curvature_reg, data_vector(M, noise, image))
    IN  [reconstruction |-> reconstruction,
         reconstructed_data_1d |-> mapped_reconstructed_data(M, reconstruction),
         regularization_term |-> VRat(regularization_term_of(H, reconstruction)),
         log_det_curvature_reg_matrix_term |-> VLog(0, determinant(curvature_reg)),
         log_det_regularization_matrix_term |->
             VLog(0, determinant([j \in 1..Len(H) |-> [k \in 1..Len(H) |-> RInt(H[j][k])]]))]

\* autofit DataFit: the chi-squared of the fit (step 5)
chi_squared_of(data, noise_map, model_data) ==
    RSeqSum([i \in 1..Len(data) |->
                RMul(RDiv(RSub(RInt(data[i]), model_data[i]), RInt(noise_map[i])),
                     RDiv(RSub(RInt(data[i]), model_data[i]), RInt(noise_map[i])))])

\* the image of the light profiles of the tracer's galaxies, blurred: the
\* galaxies of the model have none
blurred_profile_image_1d == [i \in 1..Len(lens_data_image_1d) |-> RInt(0)]

\* lines 170-180 (and 10-22): the fit the class method returns
LensImageFit(image, noise_map, model_image, inv) ==
    [image |-> image, noise_map |-> noise_map, model_image |-> model_image, inversion |-> inv]

\* the mutation of lines 154-165: the failure of the inversion swallowed and
\* the fit of the light profiles alone returned
from_lens_data_and_tracer_swallowing_the_error ==
    LET profile_subtracted_image_1d ==
            [i \in 1..Len(lens_data_image_1d) |->
                RSub(RInt(lens_data_image_1d[i]), blurred_profile_image_1d[i])]
    IN  IF ~tracer_has_pixelization
        THEN [raised |-> FALSE,
              fit |-> Some(LensImageFit(lens_data_image_1d, lens_data_noise_map_1d,
                                        blurred_profile_image_1d, None))]
        ELSE IF inversion_raises_SingularSystemError(profile_subtracted_image_1d,
                                                      lens_data_noise_map_1d,
                                                      tracer_blurred_mapping_matrix,
                                                      tracer_regularization_matrix)
        THEN [raised |-> FALSE,
              fit |-> Some(LensImageFit(lens_data_image_1d, lens_data_noise_map_1d,
                                        blurred_profile_image_1d, None))]
        ELSE LET inv == inversion_from_grid_image_1d_noise_map_1d_and_convolver(
                            profile_subtracted_image_1d, lens_data_noise_map_1d,
                            tracer_blurred_mapping_matrix, tracer_regularization_matrix)
             IN  [raised |-> FALSE,
                  fit |-> Some(LensImageFit(lens_data_image_1d, lens_data_noise_map_1d,
                                [i \in 1..Len(lens_data_image_1d) |->
                                    RAdd(blurred_profile_image_1d[i], inv.reconstructed_data_1d[i])],
                                Some(inv)))]

\* lines 115-177: what the class method returns, or that it raised (an error
\* of the inversion is not caught: no fit is built)
from_lens_data_and_tracer ==
    LET profile_subtracted_image_1d ==
            [i \in 1..Len(lens_data_image_1d) |->
                RSub(RInt(lens_data_image_1d[i]), blurred_profile_image_1d[i])]
    IN  IF ~tracer_has_pixelization
        THEN [raised |-> FALSE,
              fit |-> Some(LensImageFit(lens_data_image_1d, lens_data_noise_map_1d,
                                        blurred_profile_image_1d, None))]
        ELSE IF inversion_raises_SingularSystemError(profile_subtracted_image_1d,
                                                      lens_data_noise_map_1d,
                                                      tracer_blurred_mapping_matrix,
                                                      tracer_regularization_matrix)
        THEN [raised |-> TRUE, fit |-> None]
        ELSE LET inv == inversion_from_grid_image_1d_noise_map_1d_and_convolver(
                            profile_subtracted_image_1d, lens_data_noise_map_1d,
                            tracer_blurred_mapping_matrix, tracer_regularization_matrix)
             IN  [raised |-> FALSE,
                  fit |-> Some(LensImageFit(lens_data_image_1d, lens_data_noise_map_1d,
                                [i \in 1..Len(lens_data_image_1d) |->
                                    RAdd(blurred_profile_image_1d[i], inv.reconstructed_data_1d[i])],
                                Some(inv)))]

\* ------------------------------------------------ linear inversion: inputs
ObservedPixels == 1..2

CellCounts == {1, 2}

\* the regularization matrices of the model: all zero, the identity (as in
\* test_fitting.py), and the matrix make_via_pairs builds for cells of weight 1
\* with every two cells a pair
RegularizationMatrices(cells) ==
    { zeros(cells, cells),
      [j \in 1..cells |-> [k \in 1..cells |-> IF j = k THEN 1 ELSE 0]],
      make_via_pairs(cells, [j \in 1..cells |-> 1], [j \in 1..cells |-> cells - 1],
                     IF cells = 1 THEN <<>> ELSE << <<1, 2>> >>) }

InitInversion ==
    \E pixelization \in BOOLEAN, image \in [ObservedPixels -> 0..MaxFlux],
       noise \in [ObservedPixels -> 1..MaxNoise], cells \in CellCounts :
      \E M \in [ObservedPixels -> [1..cells -> {0, 1}]], H \in RegularizationMatrices(cells) :
        /\ tracer_has_pixelization = pixelization
        /\ lens_data_image_1d = image
        /\ lens_data_noise_map_1d = noise
        /\ tracer_blurred_mapping_matrix = IF pixelization THEN M ELSE <<>>
        /\ tracer_regularization_matrix = IF pixelization THEN H ELSE <<>>
        /\ fit_model_image = <<>>
        /\ epc = "call"
        /\ fit_chi_squared = <<>>
        /\ fit_noise_normalization = <<>>
        /\ fit_inversion = <<>>
        /\ evidence_read = NotRead
        /\ figure_of_merit_read = NotRead

\* ----------------------------------------------- linear inversion: actions
\* lines 115-180: the call of the class method; the fit it returns takes its
\* chi-squared and noise normalization from the data, the noise map and the
\* model image (DataFit.__init__)
FromLensDataAndTracer ==
    /\ epc = "call"
    /\ LET call == from_lens_data_and_tracer
       IN  IF call.raised
           THEN /\ epc' = "SingularSystemError"
                /\ UNCHANGED <<fit_model_image, fit_chi_squared, fit_noise_normalization,
                               fit_inversion>>
           ELSE /\ epc' = "returned"
                /\ fit_model_image' = call.fit[1].model_image
                /\ fit_inversion' = call.fit[1].inversion
                /\ fit_chi_squared' =
                      VRat(chi_squared_of(call.fit[1].image, call.fit[1].noise_map,
                                          call.fit[1].model_image))
                /\ fit_noise_normalization' = compute_noise_term(call.fit[1].noise_map)
    /\ UNCHANGED <<lensDataVars, evidence_read, figure_of_merit_read>>
    /\ UNCHANGED notInversionVars

NextInversion == FromLensDataAndTracer \/ Evidence \/ FigureOfMerit

InversionInit == InitInversion /\ IdleAssign /\ IdleReg /\ IdleMap /\ IdleBorder /\ IdleAngle /\ IdleFitting /\ IdleVoronoi /\ IdleHyperRun /\ IdleMake /\ IdleTransfer /\ IdleHyperGalaxy /\ IdleNoiseMap

SpecInversion == InversionInit /\ [][NextInversion]_vars

\* ------------------------------------------------ linear inversion: claims
\* the system is solved: the fit holds an inversion with its reconstruction
Solved == fit_inversion # None

\* an evidence has been produced: a read of evidence returned a number, or a
\* read of figure_of_merit returned that of a fit with an inversion
EvidenceProduced ==
    \/ evidence_read # NotRead /\ evidence_read[1] # None
    \/ figure_of_merit_read # NotRead /\ fit_inversion # None

Stage ==
    IF EvidenceProduced THEN "Evidence computed"
    ELSE IF Solved THEN "Solved" ELSE "Unsolved"

\* the results of an evaluation
Results == <<fit_inversion, fit_model_image, fit_chi_squared, fit_noise_normalization>>

\* C18: an evaluation moves only from Unsolved to Solved to Evidence computed;
\* no evidence is produced before the system is solved; once an evidence is
\* produced the results, and every value a property returned, stay as they are.
C18_StagesInOrder ==
    /\ [](EvidenceProduced => Solved)
    /\ [][\/ Stage' = Stage
          \/ Stage = "Unsolved" /\ Stage' = "Solved"
          \/ Stage = "Solved" /\ Stage' = "Evidence computed"]_vars
    /\ [][EvidenceProduced
           => /\ Results' = Results
              /\ evidence_read # NotRead => evidence_read' = evidence_read
              /\ figure_of_merit_read # NotRead => figure_of_merit_read' = figure_of_merit_read]_vars

\* an evaluation with a pixelization that has reached Evidence computed, with
\* both properties read
C18_Witness ==
    /\ tracer_has_pixelization
    /\ epc = "returned"
    /\ Stage = "Evidence computed"
    /\ evidence_read # NotRead
    /\ figure_of_merit_read = evidence_read

\* x^T A x for a vector x of whole numbers
QuadraticFormOf(A, x) ==
    RSeqSum([j \in 1..Len(A) |->
        RSeqSum([k \in 1..Len(A) |-> RMul(RInt(x[j] * x[k]), A[j][k])])])

\* A is seen not to be positive definite: x^T A x <= 0 for some x other than 0
NotPositiveDefinite(A) ==
    \E x \in [1..Len(A) -> (-MaxX)..MaxX] :
        /\ \E j \in 1..Len(A) : x[j] # 0
        /\ ~RLess(RInt(0), QuadraticFormOf(A, x))

\* F + H of the evaluation
CurvatureRegMatrix ==
    curvature_reg_matrix(curvature_matrix(tracer_blurred_mapping_matrix, lens_data_noise_map_1d),
                         tracer_regularization_matrix)

\* no fit, and so no reconstruction, model image or evidence
NothingReturned ==
    /\ fit_inversion = None
    /\ fit_model_image = <<>>
    /\ fit_chi_squared = <<>>
    /\ evidence_read = NotRead
    /\ figure_of_merit_read = NotRead

append_pair_one_way(lists, pair) ==
    [lists EXCEPT ![pair[1]] = Append(@, pair[2])]

\* lines 168-169: the body of the loop for one ridge pair
append_pair(lists, pair) ==
    LET first == [lists EXCEPT ![pair[1]] = Append(@, pair[2])]
    IN  [first EXCEPT ![pair[2]] = Append(@, pair[1])]

\* line 171: list(map(lambda x: len(x), self.neighbors))
lengths(lists) == [c \in 1..Len(lists) |-> Len(lists[c])]

\* a ridge joins two different points, in either order
RidgePairs(cells) == { pair \in (1..cells) \X (1..cells) : pair[1] # pair[2] }

\* qhull reports a ridge once
RidgeLists(cells) ==
    { ridges \in UNION { [1..n -> RidgePairs(cells)] : n \in 0..MaxRidges } :
        \A a, b \in 1..Len(ridges) :
            a # b => {ridges[a][1], ridges[a][2]} # {ridges[b][1], ridges[b][2]} }

\* lines 163-165: the state on entry to the loop over reversed(ridge_points)
InitVoronoi ==
    \E cells \in 2..MaxCells :
      \E ridges \in RidgeLists(cells) :
        /\ ridge_points = ridges
        /\ ridge_index = Len(ridges)
        /\ voronoi_neighbors = [c \in 1..cells |-> <<>>]
        /\ voronoi_neighbors_total = <<>>
        /\ vpc = "for"

\* lines 167-169: one pass of the loop
ForPair ==
    /\ vpc = "for"
    /\ ridge_index >= 1
    /\ voronoi_neighbors' = append_pair(voronoi_neighbors, ridge_points[ridge_index])
    /\ ridge_index' = ridge_index - 1
    /\ UNCHANGED <<ridge_points, voronoi_neighbors_total, vpc>>
    /\ UNCHANGED notVoronoiVars

\* line 171: after the loop
NeighborsTotal ==
    /\ vpc = "for"
    /\ ridge_index = 0
    /\ voronoi_neighbors_total' = lengths(voronoi_neighbors)
    /\ vpc' = "done"
    /\ UNCHANGED <<ridge_points, ridge_index, voronoi_neighbors>>
    /\ UNCHANGED notVoronoiVars

NextVoronoi == ForPair \/ NeighborsTotal

VoronoiInit == InitVoronoi /\ IdleAssign /\ IdleReg /\ IdleMap /\ IdleBorder /\ IdleAngle /\ IdleFit /\ IdleFitting /\ IdleInversion /\ IdleHyperRun /\ IdleMake /\ IdleTransfer /\ IdleHyperGalaxy /\ IdleNoiseMap

SpecVoronoi == VoronoiInit /\ [][NextVoronoi]_vars

\* ---------------------------------------------------------- Voronoi: claims
\* the number of times d is recorded in a list
Occurrences(list, d) == Cardinality({ n \in 1..Len(list) : list[n] = d })

\* C20: after Voronoi.__init__, j is in neighbors[i] exactly when i is in
\* neighbors[j], and neighbors_total[i] is the number of entries of neighbors[i].
C20_SymmetricWithTotals ==
    vpc = "done"
    => /\ \A i, j \in 1..Len(voronoi_neighbors) :
             Occurrences(voronoi_neighbors[i], j) > 0
               <=> Occurrences(voronoi_neighbors[j], i) > 0
       /\ Len(voronoi_neighbors_total) = Len(voronoi_neighbors)
       /\ \A i \in 1..Len(voronoi_neighbors) :
             voronoi_neighbors_total[i]
               = SeqSum([j \in 1..Len(voronoi_neighbors) |-> Occurrences(voronoi_neighbors[i], j)])

\* three cells in a chain: the middle one has two neighbours, one of them
\* reported by qhull with the middle cell second
C20_Witness ==
    /\ vpc = "done"
    /\ ridge_points = << <<1, 2>>, <<3, 2>> >>
    /\ voronoi_neighbors = << <<2>>, <<3, 1>>, <<2>> >>
    /\ voronoi_neighbors_total = <<1, 2, 1>>

\* ======================================================== coordinate order
\* the routines that take a sequence of coordinates and return one result per
\* coordinate: the relocation (lines 61-63) and the two assignment strategies
\* (lines 240-269, 271-342)
NextCoordinateOrder == NextBorder \/ NextAssign

CoordinateOrderInit == BorderInit \/ AssignInit

SpecCoordinateOrder == CoordinateOrderInit /\ [][NextCoordinateOrder]_vars

\* the walk of sub-pixel s can stop on cell c: c has neighbours and is
\* strictly nearer to s than each of them
WalkStopsAt(s, c) ==
    /\ cluster_neighbors[c] # <<>>
    /\ \A n \in 1..Len(cluster_neighbors[c]) : SepTo(s, c) < SepTo(s, cluster_neighbors[c][n])

\* C21: the relocation yields as many coordinates as before, element i the
\* relocation of the former element i; each assignment strategy returns one
\* cell per sub-pixel, element i the cell assigned to sub-pixel i.
C21_OrderPreserved ==
    /\ relocations > 0
       => /\ Len(coordinates) = Len(previous_coordinates)
          /\ \A i \in 1..Len(coordinates) :
                coordinates[i] = relocated_coordinate(previous_coordinates[i])
    /\ apc \in {"for", "walk", "done", "ValueError"}
       => /\ Len(nearest_neighbour_index) = Len(sub_coordinates)
          /\ \A s \in 1..Len(sub_coordinates) :
                \A d \in Cells : SepTo(s, nearest_neighbour_index[s]) <= SepTo(s, d)
    /\ apc \in {"for", "walk"}
       => Len(sub_image_pixel_to_cluster_index) = sub_coordinate_index - 1
    /\ apc = "done"
       => Len(sub_image_pixel_to_cluster_index) = Len(sub_coordinates)
    /\ \A s \in 1..Len(sub_image_pixel_to_cluster_index) :
          WalkStopsAt(s, sub_image_pixel_to_cluster_index[s])

\* two coordinates of which the relocation moved the second only
C21_WitnessRelocation ==
    /\ relocations = 1
    /\ Len(coordinates) = 2
    /\ coordinates[1] = previous_coordinates[1]
    /\ coordinates[2] # previous_coordinates[2]

\* two sub-pixels assigned to different cells by both strategies, the second
\* after a walk
C21_Witness ==
    /\ apc = "done"
    /\ Len(sub_coordinates) = 2
    /\ sub_image_pixel_to_cluster_index[1] # sub_image_pixel_to_cluster_index[2]
    /\ nearest_neighbour_index = sub_image_pixel_to_cluster_index
    /\ hop_log[2] > 0
    /\ ~WalkStopsAt(1, sub_image_pixel_to_cluster_index[2])
    /\ ~WalkStopsAt(2, sub_image_pixel_to_cluster_index[1])

\* ================================================================== purity
\* the core operations together: border relocation, cluster assignment,
\* regularization matrix, mapping matrix
NextCore == NextBorder \/ NextAssign \/ NextReg \/ NextMap

CoreInit == BorderInit \/ AssignInit \/ RegInit \/ MapInit

SpecCore == CoreInit /\ [][NextCore]_vars

\* the geometry and the arguments the operations are given, other than the
\* coordinates of the source plane
GeometryInputs ==
    <<centre, border_thetas, border_radii, polynomial,
      sub_coordinates, cluster_centers, cluster_neighbors,
      sub_coordinate_to_sparse_coordinate_index, sparse_coordinate_to_cluster_index,
      dimension, regularization_weights, no_vertices, pixel_pairs,
      source_pixel_total, image_pixel_total, sub_grid_size,
      mm_sub_image_pixel_to_cluster_index, sub_image_pixel_to_image_pixel_index>>

\* C22: no core operation changes an input: the coordinates of the source
\* plane, the border, the cell centres, the adjacency lists, the weights and
\* the index arrays are after every step what they were before it.
C22_InputsUnchanged ==
    [][coordinates' = coordinates /\ GeometryInputs' = GeometryInputs]_vars

\* what holds of C22: every input other than the coordinates of the source
\* plane is left as it was
C22_GeometryUnchanged == [][GeometryInputs' = GeometryInputs]_vars

\* a second relocation of the same source plane that started from the
\* coordinates the first one left and moved them again
C22_SecondEvaluationAffected ==
    /\ relocations = 2
    /\ coordinates # previous_coordinates

\* ============================================================ hyper phases
\* phase_extensions.py: HyperPhase.run (lines 72-99) and CombinedHyperPhase.run
\* (lines 612-652) with combine_variables and run_hyper (654-688).
\*
\* A result (af.Result) is kept as the phase it is of, the run that produced
\* it, its variable (the set of the priors it holds) and the hyper results
\* attached to it by name.  A results collection (af.ResultsCollection) is the
\* sequence of its <<name, result>> entries.  The wrapped phase and the hyper
\* phases' fits are calls out of the file: each returns a new result.
AttributeNames == {"hyper_galaxy", "inversion", "combined"}

\* the hyper names of the hyper phase classes of the file (lines 189-196, 303)
HyperNames == {"hyper_galaxy", "inversion"}

phase_name == "phase"

NoAttributes == [a \in AttributeNames |-> None]

Result(of, run, variable) ==
    [of |-> of, run |-> run, variable |-> variable, attributes |-> NoAttributes]

\* setattr(result, name, value)
setattr(result, name, value) ==
    [result EXCEPT !.attributes = [@ EXCEPT ![name] = Some(value)]]

\* the mutation of lines 90 and 632: the caller's collection used as it is
results_without_copy(results) ==
    IF results # None THEN [collection |-> results[1], shared |-> TRUE]
    ELSE [collection |-> <<>>, shared |-> FALSE]

\* lines 90 and 632: a deep copy of the caller's collection, or a new one
results_of_the_run(results) ==
    IF results # None THEN [collection |-> results[1], shared |-> FALSE]
    ELSE [collection |-> <<>>, shared |-> FALSE]

\* the local collection as the code sees it: after results.add its last entry
\* is the result object itself, attributes set later included
ResultsSeen ==
    IF hp_added THEN Append(hp_results, <<phase_name, hp_result[1]>>) ELSE hp_results

\* results.last
results_last == ResultsSeen[Len(ResultsSeen)][2]

Call(callee, name) == [callee |-> callee, name |-> name, results |-> ResultsSeen]

\* the result a hyper phase's run_hyper returns: the k-th hyper phase fits its
\* own priors
hyper_result_of(k, name) == Result(name, hp_runs, {k})

\* the mutation of line 686: the variable of the last hyper phase only
combine_variables_last_only(result) ==
    IF hp_hyper_phases = <<>> THEN {}
    ELSE result.attributes[hp_hyper_phases[Len(hp_hyper_phases)]][1].variable

\* lines 654-688: the sum over phase_names of getattr(result, name).variable
combine_variables(result) ==
    UNION { result.attributes[hp_hyper_phases[k]][1].variable : k \in 1..Len(hp_hyper_phases) }

\* ----------------------------------------------------- hyper phases: inputs
PreviousResults ==
    { [k \in 1..n |-> <<"previous", Result("previous", 0, {})>>] : n \in 0..MaxPrevious }

CallerResults == {None} \cup { Some(c) : c \in PreviousResults }

HyperPhaseLists == UNION { [1..n -> HyperNames] : n \in 0..MaxHyperPhases }

InitHyperRun ==
    \E class \in {"HyperPhase", "CombinedHyperPhase"}, results \in CallerResults :
      \E name \in HyperNames, hyper_phases \in HyperPhaseLists :
        /\ hp_class = class
        /\ hp_hyper_name = IF class = "HyperPhase" THEN name ELSE "combined"
        /\ hp_hyper_phases = IF class = "HyperPhase" THEN <<>> ELSE hyper_phases
        /\ caller_results = results
        /\ hp_results = <<>>
        /\ hp_results_shared = FALSE
        /\ hp_result = None
        /\ hp_added = FALSE
        /\ hp_index = 1
        /\ hp_calls = <<>>
        /\ hp_returned = None
        /\ hp_runs = 1
        /\ hpc = "run"

\* ---------------------------------------------------- hyper phases: actions
\* lines 90 and 632
RunEnter ==
    /\ hpc = "run"
    /\ hp_results' = results_of_the_run(caller_results).collection
    /\ hp_results_shared' = results_of_the_run(caller_results).shared
    /\ hpc' = "phase.run"
    /\ UNCHANGED <<hp_class, hp_hyper_name, hp_hyper_phases, caller_results, hp_result,
                   hp_added, hp_index, hp_calls, hp_returned, hp_runs>>
    /\ UNCHANGED notHyperRunVars

\* lines 91 and 633: result = self.phase.run(data, results=results, **kwargs)
PhaseRun ==
    /\ hpc = "phase.run"
    /\ hp_calls' = Append(hp_calls, Call("phase.run", phase_name))
    /\ hp_result' = Some(Result(phase_name, hp_runs, {0}))
    /\ hpc' = "results.add"
    /\ UNCHANGED <<hp_class, hp_hyper_name, hp_hyper_phases, caller_results, hp_results,
                   hp_results_shared, hp_added, hp_index, hp_returned, hp_runs>>
    /\ UNCHANGED notHyperRunVars

\* the mutation of lines 92 and 634: the result not added to the collection
ResultsAddLost ==
    /\ hpc = "results.add"
    /\ hpc' = IF hp_class = "HyperPhase" THEN "run_hyper" ELSE "for"
    /\ UNCHANGED <<hp_class, hp_hyper_name, hp_hyper_phases, caller_results, hp_results,
                   hp_results_shared, hp_result, hp_added, hp_index, hp_calls, hp_returned,
                   hp_runs>>
    /\ UNCHANGED notHyperRunVars

\* lines 92 and 634: results.add(self.phase.phase_name, result)
ResultsAdd ==
    /\ hpc = "results.add"
    /\ hp_added' = TRUE
    /\ caller_results' =
          IF hp_results_shared THEN Some(Append(hp_results, <<phase_name, hp_result[1]>>))
          ELSE caller_results
    /\ hpc' = IF hp_class = "HyperPhase" THEN "run_hyper" ELSE "for"
    /\ UNCHANGED <<hp_class, hp_hyper_name, hp_hyper_phases, hp_results, hp_results_shared,
                   hp_result, hp_index, hp_calls, hp_returned, hp_runs>>
    /\ UNCHANGED notHyperRunVars

\* lines 93-98: hyper_result = self.run_hyper(...); setattr(result, ...)
RunHyper ==
    /\ hpc = "run_hyper"
    /\ hp_calls' = Append(hp_calls, Call("run_hyper", hp_hyper_name))
    /\ hp_result' = Some(setattr(hp_result[1], hp_hyper_name, hyper_result_of(1, hp_hyper_name)))
    /\ hpc' = "return"
    /\ UNCHANGED <<hp_class, hp_hyper_name, hp_hyper_phases, caller_results, hp_results,
                   hp_results_shared, hp_added, hp_index, hp_returned, hp_runs>>
    /\ UNCHANGED notHyperRunVars

\* lines 636-642: one pass of the loop over self.hyper_phases
ForHyperPhase ==
    /\ hpc = "for"
    /\ hp_index <= Len(hp_hyper_phases)
    /\ LET hyper_name == hp_hyper_phases[hp_index]
       IN  /\ hp_calls' = Append(hp_calls, Call("run_hyper", hyper_name))
           /\ hp_result' = Some(setattr(hp_result[1], hyper_name,
                                        hyper_result_of(hp_index, hyper_name)))
    /\ hp_index' = hp_index + 1
    /\ UNCHANGED <<hp_class, hp_hyper_name, hp_hyper_phases, caller_results, hp_results,
                   hp_results_shared, hp_added, hp_returned, hp_runs, hpc>>
    /\ UNCHANGED notHyperRunVars

\* lines 644-651 with 654-688: the final phase, run on the combined variable
\* of results.last and attached under self.hyper_name
CombinedRunHyper ==
    /\ hpc = "for"
    /\ hp_index > Len(hp_hyper_phases)
    /\ hp_calls' = Append(hp_calls, Call("run_hyper", hp_hyper_name))
    /\ hp_result' = Some(setattr(hp_result[1], hp_hyper_name,
                                 Result(hp_hyper_name, hp_runs, combine_variables(results_last))))
    /\ hpc' = "return"
    /\ UNCHANGED <<hp_class, hp_hyper_name, hp_hyper_phases, caller_results, hp_results,
                   hp_results_shared, hp_added, hp_index, hp_returned, hp_runs>>
    /\ UNCHANGED notHyperRunVars

\* lines 99 and 652
RunReturn ==
    /\ hpc = "return"
    /\ hp_returned' = Some(hp_result[1])
    /\ hpc' = "returned"
    /\ UNCHANGED <<hp_class, hp_hyper_name, hp_hyper_phases, caller_results, hp_results,
                   hp_results_shared, hp_result, hp_added, hp_index, hp_calls, hp_runs>>
    /\ UNCHANGED notHyperRunVars

\* the caller runs the phase again with the same collection
RunAgain ==
    /\ hpc = "returned"
    /\ hp_runs < MaxRuns
    /\ hp_runs' = hp_runs + 1
    /\ hp_results' = <<>>
    /\ hp_results_shared' = FALSE
    /\ hp_result' = None
    /\ hp_added' = FALSE
    /\ hp_index' = 1
    /\ hp_calls' = <<>>
    /\ hp_returned' = None
    /\ hpc' = "run"
    /\ UNCHANGED <<hp_class, hp_hyper_name, hp_hyper_phases, caller_results>>
    /\ UNCHANGED notHyperRunVars

NextHyperRun ==
    \/ RunEnter
    \/ PhaseRun
    \/ ResultsAdd
    \/ RunHyper
    \/ ForHyperPhase
    \/ CombinedRunHyper
    \/ RunReturn
    \/ RunAgain

HyperRunInit == InitHyperRun /\ IdleAssign /\ IdleReg /\ IdleMap /\ IdleBorder /\ IdleAngle /\ IdleFit /\ IdleFitting /\ IdleInversion /\ IdleVoronoi /\ IdleMake /\ IdleTransfer /\ IdleHyperGalaxy /\ IdleNoiseMap

SpecHyperRun == HyperRunInit /\ [][NextHyperRun]_vars

\* ----------------------------------------------------- hyper phases: claims
\* the result of the normal phase of this run
IsNormalResult(result) == result.of = phase_name /\ result.run = hp_runs

\* the collection holds the normal phase's result under phase_name
HoldsNormalResult(results) ==
    \E e \in 1..Len(results) : results[e][1] = phase_name /\ IsNormalResult(results[e][2])

\* C24: HyperPhase.run calls phase.run and then run_hyper, once each;
\* run_hyper is given a collection that holds the normal phase's result under
\* phase_name; what is returned is the normal phase's result with the hyper
\* result attached under hyper_name.
C24_NormalThenHyper ==
    hp_class = "HyperPhase"
    => /\ Len(hp_calls) <= 2
       /\ Len(hp_calls) >= 1 => hp_calls[1].callee = "phase.run"
       /\ Len(hp_calls) = 2
          => /\ hp_calls[2].callee = "run_hyper"
             /\ hp_calls[2].name = hp_hyper_name
             /\ HoldsNormalResult(hp_calls[2].results)
       /\ hpc = "returned"
          => /\ Len(hp_calls) = 2
             /\ IsNormalResult(hp_returned[1])
             /\ hp_returned[1].attributes[hp_hyper_name] = Some(hyper_result_of(1, hp_hyper_name))

\* a run of a HyperPhase that was given earlier results and has returned
C24_Witness ==
    /\ hp_class = "HyperPhase"
    /\ hpc = "returned"
    /\ caller_results # None
    /\ Len(caller_results[1]) = 1
    /\ Len(hp_calls[2].results) = 2
    /\ hp_returned[1].attributes[hp_hyper_name] # None

\* the calls of a run of a CombinedHyperPhase are, in this order: phase.run,
\* run_hyper of each hyper phase, run_hyper of the combined phase
CallsInOrder ==
    /\ Len(hp_calls) <= Len(hp_hyper_phases) + 2
    /\ \A c \in 1..Len(hp_calls) :
          /\ c = 1 => hp_calls[c].callee = "phase.run"
          /\ (c > 1 /\ c <= Len(hp_hyper_phases) + 1)
             => /\ hp_calls[c].callee = "run_hyper"
                /\ hp_calls[c].name = hp_hyper_phases[c - 1]
                /\ HoldsNormalResult(hp_calls[c].results)
          /\ c = Len(hp_hyper_phases) + 2
             => /\ hp_calls[c].callee = "run_hyper"
                /\ hp_calls[c].name = "combined"

\* what is returned holds every hyper phase's result under its hyper_name and,
\* under 'combined', a result whose variable is that of all of them together
AllAttachedAndCombined ==
    /\ Len(hp_calls) = Len(hp_hyper_phases) + 2
    /\ IsNormalResult(hp_returned[1])
    /\ \A k \in 1..Len(hp_hyper_phases) :
          hp_returned[1].attributes[hp_hyper_phases[k]]
            = Some(hyper_result_of(k, hp_hyper_phases[k]))
    /\ hp_returned[1].attributes["combined"]
          = Some(Result("combined", hp_runs, 1..Len(hp_hyper_phases)))

DistinctHyperNames ==
    \A j, k \in 1..Len(hp_hyper_phases) : j # k => hp_hyper_phases[j] # hp_hyper_phases[k]

C26_CallerResultsUnchanged == [][caller_results' = caller_results]_vars

\* a second run has returned: the local collection held the new result, the
\* caller's collection holds the one earlier result it was given
C26_Witness ==
    /\ hp_runs = 2
    /\ hpc = "returned"
    /\ caller_results # None
    /\ Len(caller_results[1]) = 1
    /\ Len(ResultsSeen) = 2

\* ======================================================== make_hyper_phase
\* phase_extensions.py lines 53-70.  A phase is kept as its phase_name, its
\* phase_folders (a list) and the name path of its optimizer.

\* optimizer.copy_with_name_extension(extension): a new optimizer
copy_with_name_extension(optimizer, extension) == Append(optimizer, extension)

\* the mutation of line 61: copy.copy, the copy sharing the list phase_folders
\* with self.phase
make_hyper_phase_with_shallow_copy(self_phase, hyper_name) ==
    LET phase_folders == Append(self_phase.phase_folders, self_phase.phase_name)
    IN  [self_phase |-> [self_phase EXCEPT !.phase_folders = phase_folders],
         returned |-> [self_phase EXCEPT
                         !.phase_folders = phase_folders,
                         !.optimizer = copy_with_name_extension(@, hyper_name)]]

\* lines 61-70: what the call leaves of self.phase, and the phase it returns
make_hyper_phase(self_phase, hyper_name) ==
    LET phase == self_phase
        phase_folders == Append(phase.phase_folders, phase.phase_name)
    IN  [self_phase |-> self_phase,
         returned |-> [phase EXCEPT
                         !.phase_folders = phase_folders,
                         !.optimizer = copy_with_name_extension(@, hyper_name)]]

FolderNames == {"output", "phase"}

PhaseNames == {"phase", "phase_2"}

FolderLists == UNION { [1..n -> FolderNames] : n \in 0..MaxFolders }

InitMake ==
    \E name \in PhaseNames, folders \in FolderLists, hyper_name \in HyperNames :
      LET phase == [phase_name |-> name, phase_folders |-> folders, optimizer |-> <<name>>]
      IN  /\ wrapped_phase = phase
          /\ wrapped_hyper_name = hyper_name
          /\ phase_at_construction = phase
          /\ made_phases = <<>>

\* one call of make_hyper_phase
MakeHyperPhase ==
    /\ wrapped_phase # <<>>
    /\ Len(made_phases) < MaxCalls
    /\ LET made == make_hyper_phase(wrapped_phase, wrapped_hyper_name)
       IN  /\ wrapped_phase' = made.self_phase
           /\ made_phases' = Append(made_phases, made.returned)
    /\ UNCHANGED <<wrapped_hyper_name, phase_at_construction>>
    /\ UNCHANGED notMakeVars

NextMake == MakeHyperPhase

MakeInit == InitMake /\ IdleAssign /\ IdleReg /\ IdleMap /\ IdleBorder /\ IdleAngle /\ IdleFit /\ IdleFitting /\ IdleInversion /\ IdleVoronoi /\ IdleHyperRun /\ IdleTransfer /\ IdleHyperGalaxy /\ IdleNoiseMap

SpecMake == MakeInit /\ [][NextMake]_vars

\* the number of times name stands in the list
TimesIn(list, name) == Cardinality({ k \in 1..Len(list) : list[k] = name })

\* C27: after any number of calls of make_hyper_phase the wrapped phase has the
\* phase_folders and the optimizer it had, and every phase returned has those
\* phase_folders with phase_name appended once, a new name and a new path.
C27_CopyWithNameAppendedOnce ==
    wrapped_phase # <<>>
    => /\ wrapped_phase.phase_folders = phase_at_construction.phase_folders
       /\ wrapped_phase.optimizer = phase_at_construction.optimizer
       /\ \A k \in 1..Len(made_phases) :
             LET folders == made_phases[k].phase_folders
                 before == phase_at_construction.phase_folders
                 name == phase_at_construction.phase_name
             IN  /\ Len(folders) = Len(before) + 1
                 /\ SubSeq(folders, 1, Len(before)) = before
                 /\ folders[Len(folders)] = name
                 /\ TimesIn(folders, name) = TimesIn(before, name) + 1
                 /\ made_phases[k].optimizer # phase_at_construction.optimizer

\* three calls on a phase kept in a folder
C27_Witness ==
    /\ wrapped_phase # <<>>
    /\ Len(made_phases) = 3
    /\ wrapped_phase.phase_folders = <<"output">>
    /\ made_phases[3].phase_folders = <<"output", "phase">>

\* ======================================================== transfer_classes
\* phase_extensions.py lines 175-206.  An object of the instance is kept as its
\* class, its value when it is a number (class "float", no __dict__) and its
\* attributes; a value of the mapper as its kind (af.Prior, a prior model with
\* attributes, or a constant holding an object of the instance).
NoAttrs == [key \in {} |-> 0]

Float(v) == [cls |-> "float", value |-> v, attrs |-> NoAttrs]

Object(cls, attrs) == [cls |-> cls, value |-> 0, attrs |-> attrs]

Prior == [kind |-> "Prior", attrs |-> NoAttrs, value |-> Float(0)]

PriorModel(attrs) == [kind |-> "PriorModel", attrs |-> attrs, value |-> Float(0)]

Constant(instance_value) == [kind |-> "constant", attrs |-> NoAttrs, value |-> instance_value]

\* the mutation of lines 192-198: no object taken for one of a variable class
isinstance_of_none(instance_value, classes) == FALSE

\* lines 192-198: any(isinstance(instance_value, cls) for cls in classes)
isinstance_of_any(instance_value, classes) == instance_value.cls \in classes

\* lines 187-206: [raised |-> AttributeError left the call, mapper |-> the
\* mapper after the call].  instance.__dict__ raises for a number; getattr
\* raises, and the key is passed over, when the mapper has no such attribute.
RECURSIVE transfer_classes(_, _, _)
transfer_classes(instance, mapper, classes) ==
    IF instance.cls = "float" THEN [raised |-> TRUE, mapper |-> mapper]
    ELSE [raised |-> FALSE,
          mapper |->
            [mapper EXCEPT !.attrs =
              [key \in DOMAIN mapper.attrs |->
                IF key \notin DOMAIN instance.attrs THEN mapper.attrs[key]
                ELSE LET instance_value == instance.attrs[key]
                         mapper_value == mapper.attrs[key]
                         set == IF mapper_value.kind = "Prior"
                                THEN Constant(instance_value) ELSE mapper_value
                     IN  IF isinstance_of_any(instance_value, classes) THEN set
                         ELSE LET inner == transfer_classes(instance_value, mapper_value, classes)
                              IN  IF inner.raised THEN Constant(instance_value)
                                  ELSE IF mapper_value.kind = "Prior" THEN set
                                  ELSE inner.mapper]]]

\* ------------------------------------------------- transfer_classes: inputs
Classes == {"Galaxy", "LightProfile", "Pixelization"}

\* the best fit: a galaxy with a redshift, a light profile and a pixelization
BestFit ==
    Object("ModelInstance",
        [galaxy |-> Object("Galaxy",
            [redshift |-> Float(1),
             light |-> Object("LightProfile", [intensity |-> Float(2)]),
             pixelization |-> Object("Pixelization", [shape |-> Float(3)])])])

\* what the mapper can hold where the instance holds a number: a prior, a
\* constant, or nothing
LeafValues == {Prior, Constant(Float(0))}

\* the functions from any subset of keys to values
AttrsOver(keys, values) == UNION { [ks -> values] : ks \in SUBSET keys }

Mappers ==
    { PriorModel([galaxy |-> PriorModel(
          [key \in (DOMAIN top) \cup {"light", "pixelization"} |->
              CASE key = "light" -> PriorModel(light)
                [] key = "pixelization" -> PriorModel(pixelization)
                [] OTHER -> top[key]])]) :
        top \in AttrsOver({"redshift"}, LeafValues),
        light \in AttrsOver({"intensity"}, LeafValues),
        pixelization \in AttrsOver({"shape"}, LeafValues) }

InitTransfer ==
    \E classes \in SUBSET Classes, mapper \in Mappers :
        /\ variable_classes = classes
        /\ tc_instance = BestFit
        /\ tc_mapper = mapper
        /\ tc_mapper_before = mapper
        /\ tpc = "call"

\* the call self.transfer_classes(results.last.constant, variable) of line 150
TransferClasses ==
    /\ tpc = "call"
    /\ LET done == transfer_classes(tc_instance, tc_mapper, variable_classes)
       IN  /\ tc_mapper' = done.mapper
           /\ tpc' = IF done.raised THEN "AttributeError" ELSE "returned"
    /\ UNCHANGED <<variable_classes, tc_instance, tc_mapper_before>>
    /\ UNCHANGED notTransferVars

NextTransfer == TransferClasses

TransferInit == InitTransfer /\ IdleAssign /\ IdleReg /\ IdleMap /\ IdleBorder /\ IdleAngle /\ IdleFit /\ IdleFitting /\ IdleInversion /\ IdleVoronoi /\ IdleHyperRun /\ IdleMake /\ IdleHyperGalaxy /\ IdleNoiseMap

SpecTransfer == TransferInit /\ [][NextTransfer]_vars

\* ------------------------------------------------- transfer_classes: claims
\* the attribute paths of the best fit
Paths == { <<"galaxy">>, <<"galaxy", "redshift">>, <<"galaxy", "light">>,
           <<"galaxy", "pixelization">>, <<"galaxy", "light", "intensity">>,
           <<"galaxy", "pixelization", "shape">> }

\* the path leads to an attribute of the tree
RECURSIVE Has(_, _)
Has(tree, path) ==
    path = <<>> \/ (Head(path) \in DOMAIN tree.attrs /\ Has(tree.attrs[Head(path)], Tail(path)))

RECURSIVE At(_, _)
At(tree, path) == IF path = <<>> THEN tree ELSE At(tree.attrs[Head(path)], Tail(path))

\* an object on the way to the attribute, the one that holds it included, is
\* of a variable class
UnderVariableClass(path) ==
    \E n \in 1..(Len(path) - 1) : At(tc_instance, SubSeq(path, 1, n)).cls \in variable_classes

\* C28: after transfer_classes every attribute of the mapper that is not under
\* an object of a variable class holds the constant of the instance, and
\* every attribute under one is what it was, a prior still a prior.
C28_PriorsFixedOutsideVariableClasses ==
    tpc # "call"
    => /\ tpc = "returned"
       /\ \A path \in Paths :
             Has(tc_mapper_before, path)
             => /\ Has(tc_mapper, path)
                /\ UnderVariableClass(path)
                   => At(tc_mapper, path) = At(tc_mapper_before, path)
                /\ (~UnderVariableClass(path) /\ At(tc_instance, path).cls = "float")
                   => At(tc_mapper, path) = Constant(At(tc_instance, path))
                /\ ~UnderVariableClass(path) => At(tc_mapper, path).kind # "Prior"

\* pixelizations are variable: the prior of the pixelization is kept, those
\* of the redshift and the light profile are replaced by the best fit
C28_Witness ==
    /\ tpc = "returned"
    /\ variable_classes = {"Pixelization"}
    /\ \A path \in Paths : Has(tc_mapper_before, path)
    /\ At(tc_mapper_before, <<"galaxy", "redshift">>) = Prior
    /\ At(tc_mapper_before, <<"galaxy", "light", "intensity">>) = Prior
    /\ At(tc_mapper, <<"galaxy", "pixelization", "shape">>) = Prior
    /\ At(tc_mapper, <<"galaxy", "redshift">>) = Constant(Float(1))
    /\ At(tc_mapper, <<"galaxy", "light", "intensity">>) = Constant(Float(2))

\* ================================================= hyper galaxy phase
\* phase_extensions.py lines 461-573, HyperGalaxyPhase.run_hyper, with the
\* constructor of its Analysis (lines 323-353).  Images are sequences of pixel
\* values; the hyper_galaxy of a path is kept as <<"previous", path>> or
\* <<"fitted", path>>.

\* the mutation of line 554: no image taken for all zeros
all_zeros_never(image) == FALSE

\* line 554: np.all(image == 0)
all_zeros(image) == \A i \in 1..Len(image) : image[i] = 0

\* lines 348-353: not np.all(array) != 0.0, that is not (np.all(array) != 0.0):
\* PhaseException when an entry is zero
check_for_previously_masked_values_raises(array) ==
    ~((\A i \in 1..Len(array) : array[i] # 0) # FALSE)

\* lines 323-346: the constructor of Analysis raises PhaseException
Analysis_raises(model_image_1d, galaxy_image_1d) ==
    \/ check_for_previously_masked_values_raises(model_image_1d)
    \/ check_for_previously_masked_values_raises(galaxy_image_1d)

\* line 509: copy.deepcopy(results.last)
hyper_result_of_last(last) == [result |-> last, shared |-> FALSE]

\* ------------------------------------------------ hyper galaxy phase: inputs
ImagePixels == 1..2

Images == [ImagePixels -> 0..MaxFlux]

\* a hyper model image without a zero entry, and one with
ModelImages == { [i \in ImagePixels |-> 1], [i \in ImagePixels |-> IF i = 1 THEN 0 ELSE 1] }

InitHyperGalaxy ==
    \E n \in 1..MaxGalaxies, model_image \in ModelImages :
      \E images \in [1..n -> Images] :
        /\ hg_model_image = model_image
        /\ hg_galaxy_images = images
        /\ hg_last = [path \in 1..n |-> <<"previous", path>>]
        /\ hg_last_before = [path \in 1..n |-> <<"previous", path>>]
        /\ hg_hyper_result = None
        /\ hg_shared = FALSE
        /\ hg_fits = [path \in 1..n |-> 0]
        /\ hg_path = 1
        /\ hg_returned = None
        /\ hgpc = "run_hyper"

\* ----------------------------------------------- hyper galaxy phase: actions
\* lines 476-512: up to the loop
HyperGalaxyEnter ==
    /\ hgpc = "run_hyper"
    /\ hg_hyper_result' = Some(hyper_result_of_last(hg_last).result)
    /\ hg_shared' = hyper_result_of_last(hg_last).shared
    /\ hgpc' = "for"
    /\ UNCHANGED <<hg_model_image, hg_galaxy_images, hg_last, hg_last_before, hg_fits,
                   hg_path, hg_returned>>
    /\ UNCHANGED notHyperGalaxyVars

\* lines 514-554: the image of the path is all zeros, nothing is done for it
ForGalaxyIgnored ==
    /\ hgpc = "for"
    /\ hg_path <= Len(hg_galaxy_images)
    /\ all_zeros(hg_galaxy_images[hg_path])
    /\ hg_path' = hg_path + 1
    /\ UNCHANGED <<hg_model_image, hg_galaxy_images, hg_last, hg_last_before,
                   hg_hyper_result, hg_shared, hg_fits, hg_returned, hgpc>>
    /\ UNCHANGED notHyperGalaxyVars

\* lines 514-571: the fit of the path, its hyper_galaxy put into hyper_result
ForGalaxyFitted ==
    /\ hgpc = "for"
    /\ hg_path <= Len(hg_galaxy_images)
    /\ ~all_zeros(hg_galaxy_images[hg_path])
    /\ ~Analysis_raises(hg_model_image, hg_galaxy_images[hg_path])
    /\ hg_fits' = [hg_fits EXCEPT ![hg_path] = @ + 1]
    /\ hg_hyper_result' = Some([hg_hyper_result[1] EXCEPT ![hg_path] = <<"fitted", hg_path>>])
    /\ hg_last' = IF hg_shared THEN [hg_last EXCEPT ![hg_path] = <<"fitted", hg_path>>]
                  ELSE hg_last
    /\ hg_path' = hg_path + 1
    /\ UNCHANGED <<hg_model_image, hg_galaxy_images, hg_last_before, hg_shared,
                   hg_returned, hgpc>>
    /\ UNCHANGED notHyperGalaxyVars

\* lines 554-559 with 340-353: the constructor of Analysis raises and the
\* exception leaves run_hyper
ForGalaxyRaises ==
    /\ hgpc = "for"
    /\ hg_path <= Len(hg_galaxy_images)
    /\ ~all_zeros(hg_galaxy_images[hg_path])
    /\ Analysis_raises(hg_model_image, hg_galaxy_images[hg_path])
    /\ hgpc' = "PhaseException"
    /\ UNCHANGED <<hg_model_image, hg_galaxy_images, hg_last, hg_last_before,
                   hg_hyper_result, hg_shared, hg_fits, hg_path, hg_returned>>
    /\ UNCHANGED notHyperGalaxyVars

\* line 573
HyperGalaxyReturn ==
    /\ hgpc = "for"
    /\ hg_path > Len(hg_galaxy_images)
    /\ hg_returned' = hg_hyper_result
    /\ hgpc' = "returned"
    /\ UNCHANGED <<hg_model_image, hg_galaxy_images, hg_last, hg_last_before,
                   hg_hyper_result, hg_shared, hg_fits, hg_path>>
    /\ UNCHANGED notHyperGalaxyVars

NextHyperGalaxy ==
    \/ HyperGalaxyEnter
    \/ ForGalaxyIgnored
    \/ ForGalaxyFitted
    \/ ForGalaxyRaises
    \/ HyperGalaxyReturn

HyperGalaxyInit == InitHyperGalaxy /\ IdleAssign /\ IdleReg /\ IdleMap /\ IdleBorder /\ IdleAngle /\ IdleFit /\ IdleFitting /\ IdleInversion /\ IdleVoronoi /\ IdleHyperRun /\ IdleMake /\ IdleTransfer /\ IdleNoiseMap

SpecHyperGalaxy == HyperGalaxyInit /\ [][NextHyperGalaxy]_vars

\* ------------------------------------------------ hyper galaxy phase: claims
Galaxies == 1..Len(hg_galaxy_images)

ImageAllZeros(path) == \A i \in ImagePixels : hg_galaxy_images[path][i] = 0

HasZeroEntry(image) == \E i \in ImagePixels : image[i] = 0

RunHyperEnded == hgpc \in {"returned", "PhaseException"}

\* what the claim says of a run that has returned
IgnoredOrFittedOnce ==
    \A path \in Galaxies :
        IF ImageAllZeros(path)
        THEN hg_fits[path] = 0 /\ hg_returned[1][path] = hg_last_before[path]
        ELSE hg_fits[path] = 1 /\ hg_returned[1][path] = <<"fitted", path>>

\* C29 (as stated): run_hyper returns a result in which every galaxy of an
\* all-zero image has the hyper_galaxy of the previous result and was not
\* fitted, and every galaxy of a non-zero image was fitted once and has the
\* fitted hyper_galaxy; results.last is as it was.
C29_EveryNonZeroImageFitted ==
    /\ hg_last = hg_last_before
    /\ RunHyperEnded => (hgpc = "returned" /\ IgnoredOrFittedOnce)

\* a fit of some galaxy cannot be set up: its image is zero in some entries
\* but not all, or it is not all zeros and the hyper model image has a zero
Masked(path) ==
    ~ImageAllZeros(path) /\ (HasZeroEntry(hg_galaxy_images[path]) \/ HasZeroEntry(hg_model_image))

\* C29 (amended): no galaxy is fitted more than once and none of an all-zero
\* image is fitted; results.last is never modified; run_hyper returns exactly
\* when no galaxy that is to be fitted has a zero entry in its image or in the
\* hyper model image, and then a galaxy of an all-zero image has the previous
\* hyper_galaxy and every other was fitted once and has the fitted one;
\* otherwise PhaseException leaves run_hyper and nothing is returned.
C29_FittedUnlessMasked ==
    /\ hg_last = hg_last_before
    /\ \A path \in Galaxies : hg_fits[path] <= 1 /\ (ImageAllZeros(path) => hg_fits[path] = 0)
    /\ hgpc = "returned" => (IgnoredOrFittedOnce /\ \A path \in Galaxies : ~Masked(path))
    /\ hgpc = "PhaseException" => (hg_returned = None /\ \E path \in Galaxies : Masked(path))

\* two galaxies, the first without an image, the second fitted
C29_Witness ==
    /\ hgpc = "returned"
    /\ Len(hg_galaxy_images) = 2
    /\ ImageAllZeros(1)
    /\ hg_returned[1] = << <<"previous", 1>>, <<"fitted", 2>> >>
    /\ hg_last = << <<"previous", 1>>, <<"previous", 2>> >>

\* ===================================================== hyper noise map
\* lens_image_fit.py lines 278-300,
\* noise_map_1d_from_lens_data_tracer_and_hyper_backkground_noise.  The arrays
\* the function holds are kept by name, so that a write in place reaches
\* every name of the array written: "lens_data" is lens_data.noise_map_1d,
\* "scaled" what hyper_background_noise returns, "sum" the array made by +.

\* line 294, the right-hand side: a new array, the sum entry by entry
array_sum(left, right) == [i \in 1..Len(left) |-> left[i] + right[i]]

\* lines 296-298: every entry above the maximum set to the maximum
capped(array, maximum) == [i \in 1..Len(array) |-> IF array[i] > maximum THEN maximum ELSE array[i]]

\* the mutation of line 294: noise_map_1d += hyper_noise_map_1d, in place
noise_map_1d_added_in_place(noise_map, scaled, hyper_noise_map, hyper_noise_map_max) ==
    LET name == IF scaled # None THEN "scaled" ELSE "lens_data"
        arrays == [lens_data |-> noise_map,
                   scaled |-> IF scaled # None THEN scaled[1] ELSE <<>>]
    IN  IF hyper_noise_map = None
        THEN [returned |-> arrays[name], lens_data_noise_map_1d |-> arrays.lens_data]
        ELSE LET added == [arrays EXCEPT ![name] = array_sum(@, hyper_noise_map[1])]
                 written == IF hyper_noise_map_max # None
                            THEN [added EXCEPT ![name] = capped(@, hyper_noise_map_max[1])]
                            ELSE added
             IN  [returned |-> written[name], lens_data_noise_map_1d |-> written.lens_data]

\* lines 278-300: [returned, lens_data_noise_map_1d], the second what the
\* call leaves of lens_data.noise_map_1d
noise_map_1d_from_lens_data_tracer_and_hyper_backkground_noise(noise_map, scaled, hyper_noise_map, hyper_noise_map_max) ==
    LET name == IF scaled # None THEN "scaled" ELSE "lens_data"
        arrays == [lens_data |-> noise_map,
                   scaled |-> IF scaled # None THEN scaled[1] ELSE <<>>,
                   sum |-> <<>>]
    IN  IF hyper_noise_map = None
        THEN [returned |-> arrays[name], lens_data_noise_map_1d |-> arrays.lens_data]
        ELSE LET added == [arrays EXCEPT !.sum = array_sum(arrays[name], hyper_noise_map[1])]
                 written == IF hyper_noise_map_max # None
                            THEN [added EXCEPT !.sum = capped(@, hyper_noise_map_max[1])]
                            ELSE added
             IN  [returned |-> written.sum, lens_data_noise_map_1d |-> written.lens_data]

\* ---------------------------------------------------- hyper noise map: inputs
NoisePixels == 1..2

\* a noise map is positive; a hyper noise map may be zero in a pixel
LensDataNoiseMaps == [NoisePixels -> 1..MaxNoise]

HyperNoiseMaps == [NoisePixels -> 0..MaxNoise]

\* the background noise added to every entry by hyper_background_noise
BackgroundScales == 0..1

HyperNoiseMapMaxima == 1..(2 * MaxNoise)

InitNoiseMap ==
    \E noise_map \in LensDataNoiseMaps :
      \E scaled \in {None} \cup { Some([i \in NoisePixels |-> noise_map[i] + k]) : k \in BackgroundScales } :
        \E hyper_noise_map \in {None} \cup { Some(h) : h \in HyperNoiseMaps } :
          \E maximum \in {None} \cup { Some(m) : m \in HyperNoiseMapMaxima } :
            /\ nm_noise_map_1d = noise_map
            /\ nm_noise_map_1d_before = noise_map
            /\ nm_hyper_noise_map_max = maximum
            /\ nm_scaled_noise_map = scaled
            /\ nm_hyper_noise_map_1d = hyper_noise_map
            /\ nm_returned = None
            /\ nmpc = "call"

\* ---------------------------------------------------- hyper noise map: action
\* lines 278-300
NoiseMapFromLensData ==
    /\ nmpc = "call"
    /\ LET call == noise_map_1d_from_lens_data_tracer_and_hyper_backkground_noise(
                        nm_noise_map_1d, nm_scaled_noise_map, nm_hyper_noise_map_1d,
                        nm_hyper_noise_map_max)
       IN  /\ nm_returned' = Some(call.returned)
           /\ nm_noise_map_1d' = call.lens_data_noise_map_1d
    /\ nmpc' = "returned"
    /\ UNCHANGED <<nm_noise_map_1d_before, nm_hyper_noise_map_max, nm_scaled_noise_map,
                   nm_hyper_noise_map_1d>>
    /\ UNCHANGED notNoiseMapVars

NextNoiseMap == NoiseMapFromLensData

NoiseMapInit == InitNoiseMap /\ IdleAssign /\ IdleReg /\ IdleMap /\ IdleBorder /\ IdleAngle /\ IdleFit /\ IdleFitting /\ IdleInversion /\ IdleVoronoi /\ IdleHyperRun /\ IdleMake /\ IdleTransfer /\ IdleHyperGalaxy

SpecNoiseMap == NoiseMapInit /\ [][NextNoiseMap]_vars

\* ---------------------------------------------------- hyper noise map: claim
\* the noise map the hyper noise is added to: the scaled one when there is a
\* hyper_background_noise, lens_data.noise_map_1d as it was otherwise
OptionallyScaled == IF nm_scaled_noise_map # None THEN nm_scaled_noise_map[1] ELSE nm_noise_map_1d_before

LesserOf(a, b) == IF a <= b THEN a ELSE b

\* C30: with a hyper noise map and a maximum the function returns, entry by
\* entry, the lesser of the maximum and the sum of the (optionally scaled)
\* noise map and the hyper noise map, so no entry is above the maximum;
\* without a hyper noise map it returns the (optionally scaled) noise map;
\* lens_data.noise_map_1d is never modified.
C30_CappedSumAndInputUnchanged ==
    /\ nm_noise_map_1d = nm_noise_map_1d_before
    /\ nmpc = "returned" =>
        /\ (nm_hyper_noise_map_1d # None /\ nm_hyper_noise_map_max # None) =>
              \A i \in NoisePixels :
                  /\ nm_returned[1][i] = LesserOf(OptionallyScaled[i] + nm_hyper_noise_map_1d[1][i],
                                                   nm_hyper_noise_map_max[1])
                  /\ nm_returned[1][i] <= nm_hyper_noise_map_max[1]
        /\ nm_hyper_noise_map_1d = None => nm_returned[1] = OptionallyScaled

\* no background scaling, a hyper noise map, and a maximum that cuts one entry
\* of the sum and not the other
C30_Witness ==
    /\ nmpc = "returned"
    /\ nm_scaled_noise_map = None
    /\ nm_hyper_noise_map_1d # None /\ nm_hyper_noise_map_max # None
    /\ nm_noise_map_1d[1] + nm_hyper_noise_map_1d[1][1] > nm_hyper_noise_map_max[1]
    /\ nm_noise_map_1d[2] + nm_hyper_noise_map_1d[1][2] < nm_hyper_noise_map_max[1]
    /\ nm_returned[1][1] = nm_hyper_noise_map_max[1]
    /\ nm_returned[1][2] = nm_noise_map_1d[2] + nm_hyper_noise_map_1d[1][2]

\* ===================================================== all routines together
Init == AssignInit \/ RegInit \/ MapInit \/ BorderInit \/ AngleInit \/ FitInit \/ FittingInit \/ InversionInit \/ VoronoiInit \/ HyperRunInit \/ MakeInit \/ TransferInit \/ HyperGalaxyInit \/ NoiseMapInit

Next == NextAssign \/ NextReg \/ NextMap \/ NextBorder \/ NextAngle \/ NextFit \/ NextFitting \/ NextInversion \/ NextVoronoi \/ NextHyperRun \/ NextMake \/ NextTransfer \/ NextHyperGalaxy \/ NextNoiseMap

Spec == Init /\ [][Next]_vars

====
